---- MODULE Spec2Model ----
(***************************************************************************)
(* State-machine model of the JS-CG-tools packers: the RegPack, SlowPack   *)
(* and Crusher two-stage compressors, the digit Replacer and the two web   *)
(* workers.  Strings are sequences of character codes; positions inside    *)
(* helper operators are 0-based as in the JavaScript source.               *)
(***************************************************************************)
EXTENDS Integers, Sequences, FiniteSets, TLC

(***************************************************************************)
(* Bounds of the input families                                            *)
(***************************************************************************)
\* the longest block string given to RegPack, to the Crusher and to SlowPack
MaxBlocks == 6

MaxCrusherBlocks == 4

MaxSearchBlocks == 4

\* the iterations of the search loop that a run of the model follows
MaxSearchIterations == 21

(***************************************************************************)
(* Character codes that the source names literally                         *)
(***************************************************************************)
BACKSLASH == 92
RBRACKET == 93
CARET == 94
BACKTICK == 96
CR == 13
DASH == 45
LASTCODE == 126

\* PackerData constructor: packedStringDelimiter = "`"
packedStringDelimiter == BACKTICK

(***************************************************************************)
(* String primitives of JavaScript used by the packers                     *)
(***************************************************************************)
Min(S) == CHOOSE m \in S : \A y \in S : m <= y

Max(S) == CHOOSE m \in S : \A y \in S : m >= y

\* does x occur in s at 0-based position p
MatchAt(s, x, p) == \A k \in 1..Len(x) : s[p + k] = x[k]

\* String.prototype.indexOf(x, from): the first position >= from where x occurs
indexOf(s, x, from) ==
  LET hits == {p \in from..(Len(s) - Len(x)) : MatchAt(s, x, p)}
  IN IF hits = {} THEN -1 ELSE Min(hits)

\* String.prototype.substring(a, b) with 0 <= a <= b <= length
substring(s, a, b) == SubSeq(s, a + 1, b)

\* String.prototype.split(sep) for a string separator
RECURSIVE split(_, _)
split(s, sep) ==
  IF sep = <<>> THEN [k \in 1..Len(s) |-> <<s[k]>>]
  ELSE LET p == indexOf(s, sep, 0)
       IN IF p = -1 THEN <<s>>
          ELSE <<substring(s, 0, p)>> \o split(substring(s, p + Len(sep), Len(s)), sep)

\* Array.prototype.join(glue)
RECURSIVE join(_, _)
join(parts, glue) ==
  IF Len(parts) = 0 THEN <<>>
  ELSE IF Len(parts) = 1 THEN parts[1]
  ELSE parts[1] \o glue \o join(Tail(parts), glue)

\* StringHelper.matchAndReplaceAll with matchExp = false
RECURSIVE replaceFrom(_, _, _, _)
replaceFrom(input, originalText, replacementText, inputPointer) ==
  LET offset == indexOf(input, originalText, inputPointer)
  IN IF offset >= 0
     THEN substring(input, inputPointer, offset) \o replacementText
          \o replaceFrom(input, originalText, replacementText, offset + Len(originalText))
     ELSE substring(input, inputPointer, Len(input))

matchAndReplaceAll(input, originalText, replacementText, prefix, suffix) ==
  prefix \o replaceFrom(input, originalText, replacementText, 0) \o suffix

\* number of hops j -> indexOf(x, j + step) until -1, starting at j
RECURSIVE countHops(_, _, _, _)
countHops(s, x, j, step) ==
  IF j = -1 THEN 0 ELSE 1 + countHops(s, x, indexOf(s, x, j + step), step)

\* the length of a string whose backslashes are not escaped
unescapedByteLength(x) == Len(x)

\* RegPack.getEscapedByteLength for codes below 128
getEscapedByteLength(x) == Len(x) + Cardinality({k \in 1..Len(x) : x[k] = BACKSLASH})

(***************************************************************************)
(* A JavaScript object used as an ordered map from strings to counts:      *)
(* a sequence of [k, n] records in insertion order.                        *)
(***************************************************************************)
keyIndex(m, x) == IF \E i \in 1..Len(m) : m[i].k = x
                  THEN CHOOSE i \in 1..Len(m) : m[i].k = x ELSE 0

getCount(m, x) == LET i == keyIndex(m, x) IN IF i = 0 THEN 0 ELSE m[i].n

setCount(m, x, n) ==
  LET i == keyIndex(m, x)
  IN IF i = 0 THEN Append(m, [k |-> x, n |-> n])
     ELSE [m EXCEPT ![i] = [k |-> x, n |-> n]]

\* Object.assign(m, new): the entries new[lo..hi] are assigned in order.
\* Loops over long ranges are split in halves; the test on the first half
\* makes TLC compute it before the second half starts.
RECURSIVE assignRange(_, _, _, _)
assignRange(m, new, lo, hi) ==
  IF lo > hi THEN m
  ELSE IF lo = hi THEN setCount(m, new[lo].k, new[lo].n)
  ELSE LET mid == (lo + hi) \div 2
           left == assignRange(m, new, lo, mid)
       IN IF left = left THEN assignRange(left, new, mid + 1, hi) ELSE left

assign(m, new) == assignRange(m, new, 1, Len(new))

removeKey(m, x) == SelectSeq(m, LAMBDA entry : entry.k # x)

removeAt(q, i) == SubSeq(q, 1, i - 1) \o SubSeq(q, i + 1, Len(q))

(***************************************************************************)
(* RegPack.findRedundancies (first stage)                                  *)
(***************************************************************************)
\* the token alphabet Q: codes 1..126 except 96, 13, the delimiter and 92
Qcodes == {i \in 1..LASTCODE : i # BACKTICK /\ i # CR /\ i # packedStringDelimiter /\ i # BACKSLASH}

\* the codes of S in ascending order
ascending(S) == SelectSeq([k \in 1..LASTCODE |-> k], LAMBDA code : code \in S)

Q == ascending(Qcodes)

Chars(s) == {s[k] : k \in 1..Len(s)}

\* a token choice that ignores the text: always the last code
lastCodeToken(s) == <<LASTCODE>>

\* for (i = 122; !c && i > 0; i--) if (i < Q.length && s.indexOf(Q[i]) === -1) c = Q[i]
pickToken(s) ==
  LET present == Chars(s)
      free == {i \in 1..122 : i < Len(Q) /\ Q[i + 1] \notin present}
  IN IF free = {} THEN <<>> ELSE <<Q[Max(free) + 1]>>

\* first token: the body of the loop over i for one length t; acc = [matches, found]
scanStep(s, t, acc, i) ==
  LET x == substring(s, i, i + t)
  IN IF getCount(acc.matches, x) # 0 THEN acc
     ELSE LET j == indexOf(s, x, i + t)
          IN IF j = -1 THEN acc
             ELSE [matches |-> setCount(acc.matches, x, 1 + countHops(s, x, j, t)),
                   found |-> TRUE]

\* for (i = lo; i <= hi; ++i) of the first-token search
RECURSIVE scanLength(_, _, _, _, _)
scanLength(s, t, lo, hi, acc) ==
  IF lo > hi THEN acc
  ELSE IF lo = hi THEN scanStep(s, t, acc, lo)
  ELSE LET mid == (lo + hi) \div 2
           left == scanLength(s, t, lo, mid, acc)
       IN IF left = left THEN scanLength(s, t, mid + 1, hi, left) ELSE left

\* for (t = 2; found; ++t) with i < s.length - t
RECURSIVE scanAll(_, _, _)
scanAll(s, t, matches) ==
  LET r == scanLength(s, t, 0, Len(s) - t - 1, [matches |-> matches, found |-> FALSE])
  IN IF r.found THEN scanAll(s, t + 1, r.matches) ELSE r.matches

\* subsequent tokens: recount the known matches without overlap
recount(s, matches) ==
  [i \in 1..Len(matches) |->
     [k |-> matches[i].k,
      n |-> countHops(s, matches[i].k, indexOf(s, matches[i].k, 0), Len(matches[i].k))]]

\* the body of the best-match loop for one entry of matches
\* acc = [matches, M, N, e, bestValue, bestLength]
bestStep(acc, entry, opt) ==
  LET x == entry.k
      j == getEscapedByteLength(x)
      R == entry.n
      Z == R * j - R - j - 2
      value == opt.crushGainFactor * Z + opt.crushLengthFactor * j + opt.crushCopiesFactor * R
  IN IF Z > 0
     THEN IF value > acc.bestValue
             \/ (acc.bestValue = value
                 /\ (Z > acc.M
                     \/ (Z = acc.M /\ opt.crushTiebreakerFactor * R > opt.crushTiebreakerFactor * acc.N)))
          THEN [acc EXCEPT !.M = Z, !.N = R, !.e = x, !.bestValue = value, !.bestLength = j]
          ELSE acc
     ELSE IF R < 2 THEN [acc EXCEPT !.matches = removeKey(acc.matches, x)]
     ELSE acc

\* for (const i in matches) over the entries [lo..hi] present when the loop starts
RECURSIVE bestLoop(_, _, _, _, _)
bestLoop(entries, lo, hi, acc, opt) ==
  IF lo > hi THEN acc
  ELSE IF lo = hi THEN bestStep(acc, entries[lo], opt)
  ELSE LET mid == (lo + hi) \div 2
           left == bestLoop(entries, lo, mid, acc, opt)
       IN IF left = left THEN bestLoop(entries, mid + 1, hi, left, opt) ELSE left

\* newMatches[x.split(e).join(c)] = 1 for every key, then Object.assign
rewriteKeys(matches, e, c) ==
  assign(matches, [i \in 1..Len(matches) |-> [k |-> join(split(matches[i].k, e), c), n |-> 1]])

newMatch(token, string, gain, copies, len, score) ==
  [token |-> token, string |-> string, originalString |-> string, depends |-> <<>>,
   usedBy |-> <<>>, gain |-> gain, copies |-> copies, len |-> len, score |-> score,
   cleared |-> FALSE, newOrder |-> 9999]

\* every match that found no token, whatever its gain
untokenedAll(matches, opt) ==
  [i \in 1..Len(matches) |->
     newMatch(<<>>, matches[i].k, 0, matches[i].n, getEscapedByteLength(matches[i].k), 0)]

\* matches that found no token but still have a positive gain
untokened(matches, opt) ==
  LET entry(i) == LET x == matches[i].k
                      j == getEscapedByteLength(x)
                      R == matches[i].n
                      Z == R * j - R - j - 2
                  IN newMatch(<<>>, x, Z, R, j,
                              opt.crushGainFactor * Z + opt.crushLengthFactor * j
                                + opt.crushCopiesFactor * R)
  IN SelectSeq([i \in 1..Len(matches) |-> entry(i)], LAMBDA m : m.gain > 0)

\* the main compression loop; st = [s, tokens, matches, lookup]
RECURSIVE crushLoop(_, _)
crushLoop(st, opt) ==
  LET replaced(c, tokens, best) ==
        IF best.M < 1
        THEN [st EXCEPT !.tokens = tokens, !.matches = best.matches]
        ELSE crushLoop([s |-> matchAndReplaceAll(st.s, best.e, c, <<>>, c \o best.e),
                        tokens |-> tokens,
                        matches |-> rewriteKeys(best.matches, best.e, c),
                        lookup |-> Append(st.lookup,
                                          newMatch(c, best.e, best.M, best.N,
                                                   best.bestLength, best.bestValue))],
                       opt)
      ranked(c, tokens, counted) ==
        replaced(c, tokens, bestLoop(counted, 1, Len(counted),
                                     [matches |-> counted, M |-> 0, N |-> 0, e |-> <<>>,
                                      bestValue |-> 0, bestLength |-> 0], opt))
      counting(c, tokens) ==
        ranked(c, tokens, IF Len(tokens) = 1 THEN scanAll(st.s, 2, st.matches)
                          ELSE recount(st.s, st.matches))
      picked(c) == IF c = <<>> THEN st ELSE counting(c, c \o st.tokens)
  IN picked(pickToken(st.s))

findRedundancies(contents, opt) ==
  LET finished(st) ==
        [s |-> st.s, tokens |-> st.tokens,
         matchesLookup |-> st.lookup \o untokened(recount(st.s, st.matches), opt)]
  IN finished(crushLoop([s |-> contents, tokens |-> <<>>, matches |-> <<>>, lookup |-> <<>>],
                        opt))

(***************************************************************************)
(* The emitted first-stage decoder                                         *)
(*   for(i of `tokens`) with(_.split(i)) _ = join(pop())                   *)
(***************************************************************************)
\* with(_.split(i)) _ = join(pop()): pop() runs first, join sees the shortened array
joinPop(s, token) ==
  LET k == split(s, token)
  IN join(SubSeq(k, 1, Len(k) - 1), k[Len(k)])

RECURSIVE decodeStage1(_, _)
decodeStage1(s, tokens) ==
  IF tokens = <<>> THEN s ELSE decodeStage1(joinPop(s, <<tokens[1]>>), Tail(tokens))

\* escaping of the packed text: backslashes first, then the delimiter
escapePacked(s) ==
  matchAndReplaceAll(matchAndReplaceAll(s, <<BACKSLASH>>, <<BACKSLASH, BACKSLASH>>, <<>>, <<>>),
                     <<packedStringDelimiter>>, <<BACKSLASH, packedStringDelimiter>>, <<>>, <<>>)

\* testString: replace(/\\`/g, "`") then replace(/\\\\/g, "\\")
unescapePacked(s) ==
  matchAndReplaceAll(matchAndReplaceAll(s, <<BACKSLASH, packedStringDelimiter>>,
                                        <<packedStringDelimiter>>, <<>>, <<>>),
                     <<BACKSLASH, BACKSLASH>>, <<BACKSLASH>>, <<>>, <<>>)

(***************************************************************************)
(* StringHelper: character-class writers                                   *)
(***************************************************************************)
needsEscapingInCharClass(ascii) == ascii = BACKSLASH \/ ascii = RBRACKET \/ ascii = BACKTICK

\* codes are below 128 here, so only the last branch of the source applies
writeCharToRegexpCharClass(charCode) ==
  (IF needsEscapingInCharClass(charCode) THEN <<BACKSLASH>> ELSE <<>>) \o <<charCode>>

writeRangeToRegexpCharClass(first, last) ==
  LET length == last - first + 1
  IN (IF length > 0 THEN writeCharToRegexpCharClass(first) ELSE <<>>)
     \o (IF length > 2 THEN <<DASH>> ELSE <<>>)
     \o (IF length > 1 THEN writeCharToRegexpCharClass(last) ELSE <<>>)

getCharacterLength(unicode) == 1 + (IF unicode = BACKSLASH THEN 1 ELSE 0)

(***************************************************************************)
(* new RegExp("[" + tokenString + "]"): the set of codes a class matches   *)
(***************************************************************************)
\* atoms of the class body from 1-based position p: <<lo, hi>> pairs
RECURSIVE classAtoms(_, _)
classAtoms(ts, p) ==
  IF p > Len(ts) THEN <<>>
  ELSE LET esc == ts[p] = BACKSLASH /\ p < Len(ts)
           a == IF esc THEN ts[p + 1] ELSE ts[p]
           q == IF esc THEN p + 2 ELSE p + 1
       IN IF q + 1 <= Len(ts) /\ ts[q] = DASH
          THEN LET esc2 == ts[q + 1] = BACKSLASH /\ q + 1 < Len(ts)
                   b == IF esc2 THEN ts[q + 2] ELSE ts[q + 1]
                   r == IF esc2 THEN q + 3 ELSE q + 2
               IN <<<<a, b>>>> \o classAtoms(ts, r)
          ELSE <<<<a, a>>>> \o classAtoms(ts, q)

classNegated(ts) == Len(ts) > 0 /\ ts[1] = CARET

classBody(ts) == IF classNegated(ts) THEN Tail(ts) ELSE ts

\* a range out of order makes the RegExp constructor throw
classMalformed(ts) ==
  LET atoms == classAtoms(classBody(ts), 1)
  IN \E n \in 1..Len(atoms) : atoms[n][1] > atoms[n][2]

classMatches(ts, code) ==
  LET atoms == classAtoms(classBody(ts), 1)
      inside == \E n \in 1..Len(atoms) : atoms[n][1] <= code /\ code <= atoms[n][2]
  IN IF classNegated(ts) THEN ~inside ELSE inside

(***************************************************************************)
(* The emitted second-stage decoder                                        *)
(*   for(_=`...`; G=/[class]/.exec(_);) with(_.split(G)) _ = join(shift()) *)
(***************************************************************************)
joinShift(s, token) ==
  LET k == split(s, token)
  IN join(Tail(k), k[1])

RECURSIVE decodeStage2(_, _)
decodeStage2(testString, tokenString) ==
  LET hits == {p \in 1..Len(testString) : classMatches(tokenString, testString[p])}
  IN IF hits = {} THEN testString
     ELSE decodeStage2(joinShift(testString, <<testString[Min(hits)]>>), tokenString)

(***************************************************************************)
(* RegExpPacker.packToRegexpCharClass (second stage)                       *)
(***************************************************************************)
\* RegExpPacker.clear
clear(lookup, matchIndex) ==
  LET oldToken == lookup[matchIndex].token
  IN [j \in 1..Len(lookup) |->
        [lookup[j] EXCEPT !.usedBy = join(split(lookup[j].usedBy, oldToken), <<>>),
                          !.cleared = IF j = matchIndex THEN TRUE ELSE lookup[j].cleared]]

\* a dependency pass that records depends but blocks nothing through usedBy
dependencyStepUnblocked(lookup, i, j) ==
  LET l1 == IF lookup[i].token # <<>>
               /\ indexOf(lookup[j].originalString, lookup[i].token, 0) > -1
            THEN [lookup EXCEPT ![j].originalString =
                    join(split(lookup[j].originalString, lookup[i].token),
                         lookup[i].originalString)]
            ELSE lookup
  IN IF i # j /\ indexOf(l1[j].originalString, l1[i].originalString, 0) > -1
     THEN [l1 EXCEPT ![j].depends = @ \o l1[i].token]
     ELSE l1

\* the dependency graph: expand tokens inside originalString, record depends / usedBy
dependencyStep(lookup, i, j) ==
  LET l1 == IF lookup[i].token # <<>>
               /\ indexOf(lookup[j].originalString, lookup[i].token, 0) > -1
            THEN [lookup EXCEPT ![j].originalString =
                    join(split(lookup[j].originalString, lookup[i].token),
                         lookup[i].originalString)]
            ELSE lookup
  IN IF i # j /\ indexOf(l1[j].originalString, l1[i].originalString, 0) > -1
     THEN [l1 EXCEPT ![j].depends = @ \o l1[i].token, ![i].usedBy = @ \o l1[j].token]
     ELSE l1

\* the pairs (i, j) are numbered lo..hi in the order of the two nested loops
RECURSIVE dependencyLoop(_, _, _)
dependencyLoop(lookup, lo, hi) ==
  IF lo > hi THEN lookup
  ELSE IF lo = hi
  THEN dependencyStep(lookup, (lo \div Len(lookup)) + 1, (lo % Len(lookup)) + 1)
  ELSE LET mid == (lo + hi) \div 2
           left == dependencyLoop(lookup, lo, mid)
       IN IF left = left THEN dependencyLoop(left, mid + 1, hi) ELSE left

dependencyGraph(lookup) == dependencyLoop(lookup, 0, Len(lookup) * Len(lookup) - 1)

newRange(first, last, count, oneByteTokenCount) ==
  [first |-> first, last |-> last, count |-> count,
   cost |-> Len(writeRangeToRegexpCharClass(first, last)),
   oneByteTokenCount |-> oneByteTokenCount]

\* the body of the loop over i; acc = [firstInLine, tokenList]
rangeStep(present, acc, i) ==
  IF i # packedStringDelimiter /\ i \notin present
  THEN [acc EXCEPT !.firstInLine = IF @ = -1 THEN i ELSE @]
  ELSE IF acc.firstInLine > -1
  THEN LET first == IF acc.firstInLine = CR THEN acc.firstInLine + 1 ELSE acc.firstInLine
           last == IF i = 11 \/ i = 14 THEN i - 2 ELSE i - 1
           containsBackslash == first <= BACKSLASH /\ i > BACKSLASH
       IN [firstInLine |-> -1,
           tokenList |-> IF last >= first
                         THEN Append(acc.tokenList,
                                     newRange(first, last, last - first + 1,
                                              last - first + 1
                                                - (IF containsBackslash THEN 1 ELSE 0)))
                         ELSE acc.tokenList]
  ELSE acc

RECURSIVE rangeLoop(_, _, _, _)
rangeLoop(present, lo, hi, acc) ==
  IF lo > hi THEN acc
  ELSE IF lo = hi THEN rangeStep(present, acc, lo)
  ELSE LET mid == (lo + hi) \div 2
           left == rangeLoop(present, lo, mid, acc)
       IN IF left = left THEN rangeLoop(present, mid + 1, hi, left) ELSE left

\* lines 55-93: the runs of codes 1..126 that are absent from the input
findRanges(present) ==
  LET acc == rangeLoop(present, 1, LASTCODE, [firstInLine |-> -1, tokenList |-> <<>>])
  IN IF acc.firstInLine > -1
     THEN Append(acc.tokenList,
                 newRange(acc.firstInLine, LASTCODE, 127 - acc.firstInLine,
                          127 - acc.firstInLine
                            - (IF acc.firstInLine <= BACKSLASH THEN 1 ELSE 0)))
     ELSE acc.tokenList

\* sort key 10 * oneByteTokenCount - cost + first / 1000, scaled by 1000
rangeScore(r) == 10000 * r.oneByteTokenCount - 1000 * r.cost + r.first

\* tokenList.sort, descending score (scores are pairwise different: first is)
RECURSIVE sortRanges(_)
sortRanges(tokenList) ==
  IF tokenList = <<>> THEN <<>>
  ELSE LET best == CHOOSE n \in 1..Len(tokenList) :
                     \A m \in 1..Len(tokenList) : rangeScore(tokenList[n]) >= rangeScore(tokenList[m])
       IN <<tokenList[best]>> \o sortRanges(removeAt(tokenList, best))

\* costOneTokens followed by costTwoTokens
RECURSIVE lineTokens(_, _)
lineTokens(tokenList, two) ==
  IF tokenList = <<>> THEN <<>>
  ELSE LET codes == {i \in tokenList[1].first..tokenList[1].last :
                       i # CR /\ ((i = BACKSLASH) = two)}
       IN ascending(codes) \o lineTokens(Tail(tokenList), two)

supplyTokens(tokenList) == lineTokens(tokenList, FALSE) \o lineTokens(tokenList, TRUE)

\* a leading range that starts with ^ gives up its first code
repairCaret(tokenList, lookupLength) ==
  IF Len(tokenList) > 0 /\ tokenList[1].first = CARET
     /\ (lookupLength < tokenList[1].count \/ Len(tokenList) = 1)
  THEN [tokenList EXCEPT ![1] = [@ EXCEPT !.first = @ + 1,
                                          !.cost = Len(writeRangeToRegexpCharClass(
                                                         tokenList[1].first + 1, tokenList[1].last)),
                                          !.count = @ - 1,
                                          !.oneByteTokenCount = @ - 1]]
  ELSE tokenList

\* overlapping occurrence count: indexOf(x, 0), then indexOf(x, index + 1)
countOverlapping(s, x) == countHops(s, x, indexOf(s, x, 0), 1)

\* the inner loop over j of one binding iteration
\* acc = [lookup, matchIndex, bestScore, bestGain, bestCount, negativeCleared]
RECURSIVE candidateLoop(_, _, _, _)
candidateLoop(acc, j, output, tokenCost) ==
  LET ranked(count, gain) ==
        IF gain >= 0
        THEN IF gain > acc.bestScore
                \/ (gain = acc.bestScore
                    /\ (gain > acc.bestGain \/ (gain = acc.bestGain /\ count > acc.bestCount)))
             THEN candidateLoop([acc EXCEPT !.bestGain = gain, !.bestCount = count,
                                            !.matchIndex = j, !.bestScore = gain],
                                j + 1, output, tokenCost)
             ELSE candidateLoop(acc, j + 1, output, tokenCost)
        ELSE candidateLoop([acc EXCEPT !.lookup = clear(acc.lookup, j),
                                       !.negativeCleared = TRUE],
                           j + 1, output, tokenCost)
      counted(count) ==
        ranked(count, count * (acc.lookup[j].len - tokenCost) - acc.lookup[j].len - 2 * tokenCost)
  IN IF j > Len(acc.lookup) THEN acc
     ELSE IF acc.lookup[j].usedBy = <<>> /\ ~acc.lookup[j].cleared
          THEN counted(countOverlapping(output, acc.lookup[j].originalString))
          ELSE candidateLoop(acc, j + 1, output, tokenCost)

\* one iteration of the binding loop (lines 136-220); it = the loop's local state
\* it = [lookup, output, tokenCount, tokensRemaining, gainsRemaining, details]
\* matchIndex is 1-based here, 0 stands for the source's -1
bindIteration(it, availableTokens) ==
  LET bound(tokenCode, acc, matchedString) ==
        [it EXCEPT
           !.lookup = clear([acc.lookup EXCEPT ![acc.matchIndex].newOrder = it.tokenCount],
                            acc.matchIndex),
           !.output = matchAndReplaceAll(it.output, matchedString, <<tokenCode>>,
                                         matchedString \o <<tokenCode>>, <<>>),
           !.tokenCount = it.tokenCount + 1,
           !.tokensRemaining = it.tokenCount + 1 < Len(availableTokens),
           !.details = Append(it.details,
                              [token |-> tokenCode, gain |-> acc.bestGain,
                               count |-> acc.bestCount, str |-> matchedString,
                               matchIndex |-> acc.matchIndex,
                               before |-> it.output])]
      chosen(tokenCode, acc) ==
        IF acc.negativeCleared THEN [it EXCEPT !.lookup = acc.lookup]
        ELSE IF acc.matchIndex > 0
        THEN bound(tokenCode, acc, acc.lookup[acc.matchIndex].originalString)
        ELSE [it EXCEPT !.lookup = acc.lookup, !.gainsRemaining = FALSE]
      offered(tokenCode) ==
        chosen(tokenCode,
               candidateLoop([lookup |-> it.lookup, matchIndex |-> 0, bestScore |-> -999,
                              bestGain |-> -1, bestCount |-> 0, negativeCleared |-> FALSE],
                             1, it.output, getCharacterLength(tokenCode)))
  IN IF it.tokenCount >= Len(availableTokens)
     THEN [it EXCEPT !.tokensRemaining = FALSE]
     ELSE offered(availableTokens[it.tokenCount + 1])

\* lines 242-257: find the range of the last token used; tokenLine is 1-based here
RECURSIVE findLine(_, _, _, _)
findLine(tokenList, tokenLine, lastTokenUsed, unusedBackslash) ==
  IF tokenLine > Len(tokenList) THEN [tokenList |-> tokenList, tokenLine |-> tokenLine, tokenIndex |-> 0]
  ELSE LET r0 == tokenList[tokenLine]
           r1 == IF unusedBackslash /\ r0.first = BACKSLASH
                 THEN [r0 EXCEPT !.first = @ + 1, !.count = @ - 1] ELSE r0
           r2 == IF unusedBackslash /\ r1.last = BACKSLASH
                 THEN [r1 EXCEPT !.last = @ - 1, !.count = @ - 1] ELSE r1
           tl == [tokenList EXCEPT ![tokenLine] = r2]
       IN IF lastTokenUsed >= r2.first /\ lastTokenUsed <= r2.last
          THEN [tokenList |-> tl, tokenLine |-> tokenLine, tokenIndex |-> lastTokenUsed - r2.first + 1]
          ELSE findLine(tl, tokenLine + 1, lastTokenUsed, unusedBackslash)

\* lines 276-282: the ranges up to tokenLine that begin or end with ]
RECURSIVE bracketRanges(_, _, _)
bracketRanges(tokenList, i, tokenLine) ==
  IF i > tokenLine THEN <<>>
  ELSE (IF tokenList[i].first = RBRACKET THEN <<[rangeIndex |-> i, atBeginning |-> TRUE]>>
        ELSE IF tokenList[i].last = RBRACKET THEN <<[rangeIndex |-> i, atBeginning |-> FALSE]>>
        ELSE <<>>)
       \o bracketRanges(tokenList, i + 1, tokenLine)

\* lines 284-325: trade a ] token for the next unused token of the last range
\* st = [tokenList, tokenIndex, remainingTokens, output]
RECURSIVE moveBrackets(_, _, _, _)
moveBrackets(st, tokensToReplace, tokenLine, unusedBackslash) ==
  IF tokensToReplace = <<>> THEN st
  ELSE IF st.remainingTokens >= 1
  THEN LET ri == tokensToReplace[1].rangeIndex
           atBeginning == tokensToReplace[1].atBeginning
           oldToken == IF atBeginning THEN st.tokenList[ri].first ELSE st.tokenList[ri].last
           tl1 == [st.tokenList EXCEPT ![tokenLine].last = @ + 1]
           newToken == tl1[tokenLine].last
           tl2 == [tl1 EXCEPT ![ri].count = @ - 1]
           tl3 == [tl2 EXCEPT ![tokenLine].count = @ + 1]
           tl4 == IF atBeginning THEN [tl3 EXCEPT ![ri].first = @ + 1]
                  ELSE [tl3 EXCEPT ![ri].last = @ - 1]
           tl5 == IF atBeginning /\ unusedBackslash /\ tl4[ri].first = BACKSLASH
                  THEN [tl4 EXCEPT ![ri].first = @ + 1, ![ri].count = @ - 1]
                  ELSE IF ~atBeginning /\ unusedBackslash /\ tl4[ri].last = BACKSLASH
                  THEN [tl4 EXCEPT ![ri].last = @ - 1, ![ri].count = @ - 1]
                  ELSE tl4
       IN moveBrackets([tokenList |-> tl5,
                        tokenIndex |-> IF ri = tokenLine THEN st.tokenIndex ELSE st.tokenIndex + 1,
                        remainingTokens |-> st.remainingTokens - 1,
                        output |-> join(split(st.output, <<oldToken>>), <<newToken>>)],
                       Tail(tokensToReplace), tokenLine, unusedBackslash)
  ELSE moveBrackets(st, Tail(tokensToReplace), tokenLine, unusedBackslash)

\* lines 328-331: a leading range that starts with ^ changes place with the second
swapCaret(tokenList) ==
  IF Len(tokenList) > 1 /\ tokenList[1].first = CARET
  THEN <<tokenList[2], tokenList[1]>> \o SubSeq(tokenList, 3, Len(tokenList))
  ELSE tokenList

\* lines 333-341: the class body; a range that begins with - goes to the front
RECURSIVE buildTokenString(_, _, _, _)
buildTokenString(tokenList, i, tokenLine, tokenString) ==
  IF i > tokenLine THEN tokenString
  ELSE LET rangeString == writeRangeToRegexpCharClass(tokenList[i].first, tokenList[i].last)
       IN buildTokenString(tokenList, i + 1, tokenLine,
                           IF rangeString # <<>> /\ rangeString[1] = DASH
                           THEN rangeString \o tokenString
                           ELSE tokenString \o rangeString)

\* length of the decoder around the packed text and the class (lines 355-376):
\* "for(_=`" + "`;G=/[" + "]/.exec(_);)with(_.split(G))_=join(shift(" + "));" + "eval(_)"
decoderOverhead == 64

\* the result pushed twice by the catch block of runPacker: length 0, output "" and
\* details "Error: " followed by the message
errorResult(message) ==
  [length |-> 0, checkedString |-> <<>>, tokenString |-> <<>>, details |-> "Error", message |-> message]

\* results that stay as they were pushed although the second stage threw
resultsKeptOnError(pushed, r) == Append(pushed, r)

\* what runPacker returns once its second stage has ended with r: the result is
\* pushed after the first; after an exception the catch block leaves the PackerData
\* with the results pushed so far and returns one that holds the error result twice
runPackerResults(pushed, r) == IF r.details = "Error" THEN <<r, r>> ELSE Append(pushed, r)

\* lines 223-400: locate the last token, trim the class, build and check the output
finishPacking(tokenList0, availableTokens, tokenCount, regPackOutput, contents) ==
  LET unusedBackslash == Len(availableTokens) > 0
                         /\ availableTokens[Len(availableTokens)] = BACKSLASH
                         /\ tokenCount < Len(availableTokens)
      checked(tokenList, tokenString, checkedString) ==
        IF classMalformed(tokenString) THEN errorResult("Invalid regular expression")
        ELSE [length |-> decoderOverhead + Len(checkedString) + Len(tokenString),
              checkedString |-> checkedString, tokenString |-> tokenString,
              tokenList |-> tokenList,
              details |-> IF decodeStage2(unescapePacked(checkedString), tokenString) = contents
                          THEN "passed" ELSE "failed"]
      built(tokenLine, tokenList, output) ==
        checked(tokenList, buildTokenString(tokenList, 1, tokenLine, <<>>), escapePacked(output))
      moved(tokenLine, start) ==
        IF start.remainingTokens > 0
        THEN moveBrackets(start, bracketRanges(start.tokenList, 1, tokenLine), tokenLine,
                          unusedBackslash)
        ELSE start
      swapped(tokenLine, st) == built(tokenLine, swapCaret(st.tokenList), st.output)
      trimmed(located, remainingTokens) ==
        swapped(located.tokenLine,
                moved(located.tokenLine,
                      [tokenList |-> [located.tokenList EXCEPT
                                        ![located.tokenLine].last = @ - remainingTokens,
                                        ![located.tokenLine].count = located.tokenIndex],
                       tokenIndex |-> located.tokenIndex,
                       remainingTokens |-> remainingTokens, output |-> regPackOutput]))
      packed(located) ==
        IF located.tokenLine > Len(located.tokenList)
        THEN [length |-> -1, checkedString |-> <<>>, tokenString |-> <<>>,
              tokenList |-> tokenList0, details |-> "token out of range"]
        ELSE trimmed(located, located.tokenList[located.tokenLine].count - located.tokenIndex)
  IN IF Len(tokenList0) = 0
     THEN [length |-> -1, checkedString |-> <<>>, tokenString |-> <<>>, tokenList |-> tokenList0,
           details |-> "No tokens available"]
     ELSE packed(IF tokenCount >= Len(availableTokens)
                 THEN [tokenList |-> tokenList0, tokenLine |-> Len(tokenList0),
                       tokenIndex |-> tokenList0[Len(tokenList0)].count]
                 ELSE IF tokenCount > 0
                 THEN findLine(tokenList0, 1, availableTokens[tokenCount], unusedBackslash)
                 ELSE [tokenList |-> tokenList0, tokenLine |-> 1, tokenIndex |-> 0])

(***************************************************************************)
(* Crusher.compressWithPatterns (first stage of the Crusher)               *)
(* findInitialPatterns and updatePatternMatches repeat the two branches of *)
(* RegPack's loop (scanAll, recount).  The safetyCounter of the class is   *)
(* left out: it stops a loop after 10000 steps, far beyond the inputs here.*)
(***************************************************************************)
Heuristics == {"balanced", "mostCopies", "longest", "density", "adaptiveGain", "adaptive"}

\* scores are real numbers in the source; here they are integers in units of
\* 1/ScoreUnit, and log2 comes from a table rounded to that unit
ScoreUnit == 10000

log2Table ==
  <<0, 10000, 15850, 20000, 23219, 25850, 28074, 30000, 31699, 33219,
    34594, 35850, 37004, 38074, 39069, 40000, 40875, 41699, 42479,
    43219, 43923, 44594, 45236, 45850, 46439, 47004, 47549, 48074,
    48580, 49069, 49542, 50000>>

log2(n) == log2Table[n]

\* Crusher.calculateEntropy, in units of 1/ScoreUnit:
\* -sum p*log2(p) = log2(len) - (sum f*log2(f)) / len over the frequencies f
RECURSIVE frequencySum(_, _)
frequencySum(str, codes) ==
  IF codes = <<>> THEN 0
  ELSE LET f == Cardinality({k \in 1..Len(str) : str[k] = codes[1]})
       IN f * log2(f) + frequencySum(str, Tail(codes))

calculateEntropy(str) ==
  log2(Len(str)) - (frequencySum(str, ascending(Chars(str))) \div Len(str))

\* the score of findBestMatchBalanced, in units of 1/ScoreUnit
balancedScore(opt, pattern, patternLength, copies, gain, totalLength) ==
  ScoreUnit * (opt.crushGainFactor * gain + opt.crushLengthFactor * patternLength
               + opt.crushCopiesFactor * copies)
    + ((ScoreUnit \div 2) * ScoreUnit) \div (calculateEntropy(pattern) + ScoreUnit \div 10)
    + (2 * ScoreUnit * copies * Len(pattern)) \div totalLength

\* the comparison that makes an entry the new best, for each heuristic
isBetter(heuristic, opt, acc, score, patternLength, copies, gain) ==
  CASE heuristic = "balanced" ->
         \/ score > acc.bestScore
         \/ (score = acc.bestScore
             /\ (gain > acc.bestGain
                 \/ (gain = acc.bestGain
                     /\ opt.crushTiebreakerFactor * copies
                          > opt.crushTiebreakerFactor * acc.bestCopies)))
    [] heuristic = "mostCopies" ->
         \/ copies > acc.bestCopies
         \/ (copies = acc.bestCopies /\ gain > acc.bestGain)
         \/ (copies = acc.bestCopies /\ gain = acc.bestGain
             /\ patternLength > getEscapedByteLength(acc.bestPattern))
    [] heuristic = "longest" ->
         \/ patternLength > acc.bestLength
         \/ (patternLength = acc.bestLength /\ gain > acc.bestGain)
         \/ (patternLength = acc.bestLength /\ gain = acc.bestGain /\ copies > acc.bestCopies)
    [] heuristic = "density" ->
         \/ copies * patternLength > acc.bestDensity
         \/ (copies * patternLength = acc.bestDensity /\ gain > acc.bestGain)
    [] OTHER ->
         \/ score > acc.bestScore
         \/ (score = acc.bestScore /\ gain > acc.bestGain)
         \/ (score = acc.bestScore /\ gain = acc.bestGain /\ copies > acc.bestCopies)

\* the score of an entry, in units of 1/ScoreUnit
heuristicScore(heuristic, opt, pattern, patternLength, copies, gain, totalLength) ==
  CASE heuristic = "balanced" ->
         balancedScore(opt, pattern, patternLength, copies, gain, totalLength)
    [] heuristic = "mostCopies" ->
         ScoreUnit * (10 * copies + gain) + (ScoreUnit \div 10) * patternLength
    [] heuristic = "longest" ->
         ScoreUnit * (10 * patternLength + gain) + (ScoreUnit \div 10) * copies
    [] heuristic = "density" -> ScoreUnit * (2 * copies * patternLength + gain)
    [] OTHER -> ScoreUnit * copies * patternLength

\* the loop body shared by findBestMatchBalanced, ByMostCopies, ByLongest, ByDensity
\* and ByAdaptiveGain
\* acc = [matches, bestPattern, bestScore, bestGain, bestCopies, bestLength, bestDensity]
heuristicStep(heuristic, opt, totalLength, acc, entry) ==
  LET scored(patternLength, copies, gain, score) ==
        IF isBetter(heuristic, opt, acc, score, patternLength, copies, gain)
        THEN [acc EXCEPT !.bestPattern = entry.k,
                         !.bestScore = score,
                         !.bestGain = gain, !.bestCopies = copies,
                         !.bestLength = patternLength, !.bestDensity = copies * patternLength]
        ELSE acc
      gained(patternLength, copies, gain) ==
        IF gain <= 0
        THEN IF copies < 2 THEN [acc EXCEPT !.matches = removeKey(acc.matches, entry.k)] ELSE acc
        ELSE scored(patternLength, copies, gain,
                    heuristicScore(heuristic, opt, entry.k, patternLength, copies, gain,
                                   totalLength))
      measured(patternLength, copies) ==
        gained(patternLength, copies, copies * patternLength - copies - patternLength - 2)
  IN measured(getEscapedByteLength(entry.k), entry.n)

\* ctx = [heuristic, opt, totalLength]
RECURSIVE heuristicLoop(_, _, _, _, _)
heuristicLoop(ctx, entries, lo, hi, acc) ==
  IF lo > hi THEN acc
  ELSE IF lo = hi THEN heuristicStep(ctx.heuristic, ctx.opt, ctx.totalLength, acc, entries[lo])
  ELSE LET mid == (lo + hi) \div 2
           left == heuristicLoop(ctx, entries, lo, mid, acc)
       IN IF left = left THEN heuristicLoop(ctx, entries, mid + 1, hi, left) ELSE left

\* Crusher.findBestMatch; bestPattern = <<>> stands for the null result
findBestMatch(heuristic, matches, opt, totalLength) ==
  heuristicLoop([heuristic |-> heuristic, opt |-> opt, totalLength |-> totalLength],
                matches, 1, Len(matches),
                [matches |-> matches, bestPattern |-> <<>>, bestScore |-> 0, bestGain |-> 0,
                 bestCopies |-> 0, bestLength |-> 0, bestDensity |-> 0])

\* the ADAPTIVE branch of lines 235-276: every heuristic in turn, over the same
\* matches object; acc = [matches, best, bestScore], best = <<>> stands for null
RECURSIVE tryHeuristics(_, _, _, _)
tryHeuristics(heuristics, acc, opt, totalLength) ==
  LET tried(match) ==
        tryHeuristics(Tail(heuristics),
                      IF match.bestPattern # <<>> /\ match.bestScore > acc.bestScore
                      THEN [matches |-> match.matches, best |-> <<match>>,
                            bestScore |-> match.bestScore]
                      ELSE [acc EXCEPT !.matches = match.matches],
                      opt, totalLength)
  IN IF heuristics = <<>> THEN acc
     ELSE tried(findBestMatch(heuristics[1], acc.matches, opt, totalLength))

\* the choice of bestMatch in compressWithPatterns, lines 233-280
chooseBestMatch(heuristic, matches, opt, totalLength) ==
  LET chosen(tried) ==
        IF tried.best = <<>>
        THEN [matches |-> tried.matches, bestPattern |-> <<>>, bestScore |-> 0,
              bestGain |-> 0, bestCopies |-> 0, bestLength |-> 0, bestDensity |-> 0]
        ELSE [tried.best[1] EXCEPT !.matches = tried.matches]
  IN IF heuristic = "adaptive"
     THEN chosen(tryHeuristics(<<"balanced", "mostCopies", "longest", "density">>,
                               [matches |-> matches, best |-> <<>>, bestScore |-> -1],
                               opt, totalLength))
     ELSE findBestMatch(heuristic, matches, opt, totalLength)

\* the loop of lines 210-323; st = [s, tokens, matches, lookup]
RECURSIVE compressLoop(_, _, _)
compressLoop(st, opt, heuristic) ==
  LET replaced(c, tokens, best) ==
        IF best.bestPattern = <<>>
        THEN [st EXCEPT !.tokens = tokens, !.matches = best.matches]
        ELSE compressLoop(
               [s |-> matchAndReplaceAll(st.s, best.bestPattern, c, <<>>,
                                         c \o best.bestPattern),
                tokens |-> tokens,
                matches |-> rewriteKeys(best.matches, best.bestPattern, c),
                lookup |-> Append(st.lookup,
                                  newMatch(c, best.bestPattern, best.bestGain,
                                           best.bestCopies,
                                           getEscapedByteLength(best.bestPattern),
                                           best.bestScore))],
               opt, heuristic)
      counting(c, tokens) ==
        replaced(c, tokens,
                 chooseBestMatch(heuristic,
                                 IF Len(tokens) = 1 THEN scanAll(st.s, 2, st.matches)
                                 ELSE recount(st.s, st.matches),
                                 opt, Len(st.s)))
      picked(c) == IF c = <<>> THEN st ELSE counting(c, c \o st.tokens)
  IN picked(pickToken(st.s))

\* the last recount (lines 332-341) runs over packerData.contents, not over s
compressWithPatterns(contents, opt, heuristic) ==
  LET finished(st) ==
        [s |-> st.s, tokens |-> st.tokens,
         matchesLookup |-> st.lookup \o untokened(recount(contents, st.matches), opt)]
  IN finished(compressLoop([s |-> contents, tokens |-> <<>>, matches |-> <<>>,
                            lookup |-> <<>>], opt, heuristic))

(***************************************************************************)
(* Crusher.optimizeAndPackToRegexp (second stage of the Crusher)           *)
(* buildDependencyGraph, the range discovery of buildOptimizedTokenList    *)
(* and prepareTokensForAllocation repeat the code of RegExpPacker          *)
(* (dependencyGraph, findRanges, sortRanges, supplyTokens).                *)
(***************************************************************************)
\* Crusher.buildOptimizedTokenList: the ^ repair comes before the token supply
buildOptimizedTokenList(contents, lookupLength) ==
  repairCaret(sortRanges(findRanges(Chars(contents))), lookupLength)

\* Crusher.findBestMatchForToken
\* acc = [lookup, matchIndex, bestScore, bestGain, bestCount, negativeCleared]
RECURSIVE findBestMatchForToken(_, _, _, _, _)
findBestMatchForToken(acc, j, opt, regPackOutput, tokenCost) ==
  LET ranked(count, gain, score) ==
        IF gain >= 0
        THEN IF score > acc.bestScore
                \/ (score = acc.bestScore
                    /\ (gain > acc.bestGain
                        \/ (gain = acc.bestGain
                            /\ opt.crushTiebreakerFactor * count
                                 > opt.crushTiebreakerFactor * acc.bestCount)))
             THEN findBestMatchForToken(
                    [acc EXCEPT !.bestGain = gain, !.bestCount = count,
                                !.matchIndex = j, !.bestScore = score],
                    j + 1, opt, regPackOutput, tokenCost)
             ELSE findBestMatchForToken(acc, j + 1, opt, regPackOutput, tokenCost)
        ELSE findBestMatchForToken(
               [acc EXCEPT !.lookup = clear(acc.lookup, j), !.negativeCleared = TRUE],
               j + 1, opt, regPackOutput, tokenCost)
      gained(count, gain) ==
        ranked(count, gain,
               opt.crushGainFactor * gain + opt.crushLengthFactor * acc.lookup[j].len
                 + opt.crushCopiesFactor * count)
      counted(count) ==
        gained(count, count * (acc.lookup[j].len - tokenCost) - acc.lookup[j].len - 2 * tokenCost)
  IN IF j > Len(acc.lookup) THEN acc
     ELSE IF acc.lookup[j].usedBy = <<>> /\ ~acc.lookup[j].cleared
          THEN counted(countOverlapping(regPackOutput, acc.lookup[j].originalString))
          ELSE findBestMatchForToken(acc, j + 1, opt, regPackOutput, tokenCost)

\* Crusher.packWithOptimizedTokens, one iteration of the loop of lines 996-1064
allocateIteration(it, availableTokens, opt) ==
  LET bound(tokenCode, found, matchedString) ==
        [it EXCEPT
           !.lookup = clear([found.lookup EXCEPT ![found.matchIndex].newOrder = it.tokenCount],
                            found.matchIndex),
           !.output = matchAndReplaceAll(it.output, matchedString, <<tokenCode>>,
                                         matchedString \o <<tokenCode>>, <<>>),
           !.tokenCount = it.tokenCount + 1,
           !.tokensRemaining = it.tokenCount + 1 < Len(availableTokens),
           !.details = Append(it.details,
                              [token |-> tokenCode, gain |-> found.bestGain,
                               count |-> found.bestCount, str |-> matchedString,
                               matchIndex |-> found.matchIndex,
                               before |-> it.output])]
      chosen(tokenCode, found) ==
        IF found.negativeCleared THEN [it EXCEPT !.lookup = found.lookup]
        ELSE IF found.matchIndex > 0
        THEN bound(tokenCode, found, found.lookup[found.matchIndex].originalString)
        ELSE [it EXCEPT !.lookup = found.lookup, !.gainsRemaining = FALSE]
      offered(tokenCode) ==
        chosen(tokenCode,
               findBestMatchForToken(
                 [lookup |-> it.lookup, matchIndex |-> 0, bestScore |-> -999,
                  bestGain |-> -1, bestCount |-> 0, negativeCleared |-> FALSE],
                 1, opt, it.output, getCharacterLength(tokenCode)))
  IN IF it.tokenCount >= Len(availableTokens)
     THEN [it EXCEPT !.tokensRemaining = FALSE]
     ELSE offered(availableTokens[it.tokenCount + 1])

\* Crusher.handleRemainingTokens; st = [tokenList, tokenIndex, remainingTokens]
\* (tokenIndex is this.tokenIndex; the packed text is not rewritten here)
RECURSIVE handleRemainingTokens(_, _, _, _)
handleRemainingTokens(st, tokensToReplace, tokenLine, unusedBackslash) ==
  IF tokensToReplace = <<>> THEN st
  ELSE IF st.remainingTokens >= 1
  THEN LET ri == tokensToReplace[1].rangeIndex
           atBeginning == tokensToReplace[1].atBeginning
           tl2 == [st.tokenList EXCEPT ![ri].count = @ - 1]
           tl3 == [tl2 EXCEPT ![tokenLine].count = @ + 1]
           tl4 == IF atBeginning THEN [tl3 EXCEPT ![ri].first = @ + 1]
                  ELSE [tl3 EXCEPT ![ri].last = @ - 1]
           tl5 == IF atBeginning /\ unusedBackslash /\ tl4[ri].first = BACKSLASH
                  THEN [tl4 EXCEPT ![ri].first = @ + 1, ![ri].count = @ - 1]
                  ELSE IF ~atBeginning /\ unusedBackslash /\ tl4[ri].last = BACKSLASH
                  THEN [tl4 EXCEPT ![ri].last = @ - 1, ![ri].count = @ - 1]
                  ELSE tl4
       IN handleRemainingTokens(
            [tokenList |-> tl5,
             tokenIndex |-> IF ri = tokenLine THEN st.tokenIndex ELSE st.tokenIndex + 1,
             remainingTokens |-> st.remainingTokens - 1],
            Tail(tokensToReplace), tokenLine, unusedBackslash)
  ELSE handleRemainingTokens(st, Tail(tokensToReplace), tokenLine, unusedBackslash)

\* Crusher.buildCharacterClass; thisTokenIndex is this.tokenIndex, which
\* packWithOptimizedTokens leaves at 0 (line 1068)
buildCharacterClass(tokenList0, tokenLine, unusedBackslash, thisTokenIndex) ==
  LET handled(remainingTokens, trimmed) ==
        IF remainingTokens > 0
        THEN handleRemainingTokens(
               [tokenList |-> trimmed, tokenIndex |-> thisTokenIndex,
                remainingTokens |-> remainingTokens],
               bracketRanges(trimmed, 1, tokenLine), tokenLine, unusedBackslash).tokenList
        ELSE trimmed
      trimming(remainingTokens) ==
        handled(remainingTokens,
                [tokenList0 EXCEPT ![tokenLine].last = @ - remainingTokens,
                                   ![tokenLine].count = thisTokenIndex])
  IN buildTokenString(swapCaret(trimming(tokenList0[tokenLine].count - thisTokenIndex)),
                      1, tokenLine, <<>>)

\* Crusher.verifyUnpacking: the text between "_=`" and the first "`;" of the output
extractPacked(checkedString) ==
  substring(checkedString, 0, indexOf(checkedString \o <<BACKTICK, 59>>, <<BACKTICK, 59>>, 0))

verifyUnpacking(contents, checkedString, tokenString) ==
  decodeStage2(unescapePacked(extractPacked(checkedString)), tokenString) = contents

\* Crusher.packWithOptimizedTokens from line 1066 on, buildCharacterClass,
\* prepareFinalOutput and verifyUnpacking
finishCrusher(tokenList0, availableTokens, tokenCount, regPackOutput, contents) ==
  LET unusedBackslash == Len(availableTokens) > 0
                         /\ availableTokens[Len(availableTokens)] = BACKSLASH
                         /\ tokenCount < Len(availableTokens)
      checked(tokenString, checkedString) ==
        IF classMalformed(tokenString) THEN errorResult("Invalid regular expression")
        ELSE [length |-> decoderOverhead + Len(checkedString) + Len(tokenString),
              checkedString |-> checkedString, tokenString |-> tokenString,
              details |-> IF verifyUnpacking(contents, checkedString, tokenString)
                          THEN "passed" ELSE "failed"]
      packed(located) ==
        IF located.tokenLine > Len(located.tokenList) THEN errorResult("Token out of range")
        ELSE checked(buildCharacterClass(located.tokenList, located.tokenLine,
                                         unusedBackslash, 0),
                     escapePacked(regPackOutput))
  IN IF Len(tokenList0) = 0 THEN errorResult("No tokens available")
     ELSE packed(IF tokenCount >= Len(availableTokens)
                 THEN [tokenList |-> tokenList0, tokenLine |-> Len(tokenList0),
                       tokenIndex |-> tokenList0[Len(tokenList0)].count]
                 ELSE IF tokenCount > 0
                 THEN findLine(tokenList0, 1, availableTokens[tokenCount], unusedBackslash)
                 ELSE [tokenList |-> tokenList0, tokenLine |-> 1, tokenIndex |-> 0])

(***************************************************************************)
(* PatternAnalyzer                                                         *)
(***************************************************************************)
\* do the substrings of the given length at positions i and p of s coincide
sameSubstring(s, i, p, length) == \A k \in 1..length : s[i + k] = s[p + k]

\* findAllPotentialPatterns, the loop over i for one length: a substring is
\* pushed at its first position when it occurs (overlaps counted) at least twice
patternsOfLength(s, length) ==
  LET positions == 0..(Len(s) - length)
      isFirst(i) == \A p \in 0..(i - 1) : ~sameSubstring(s, i, p, length)
      count(i) == Cardinality({p \in positions : sameSubstring(s, i, p, length)})
      entry(i) == LET pattern == substring(s, i, i + length)
                      patternLength == getEscapedByteLength(pattern)
                      gain == count(i) * patternLength - count(i) - patternLength - 2
                  IN newMatch(<<>>, pattern, gain, count(i), patternLength, gain)
      pushed == SelectSeq([k \in 1..(Len(s) - length + 1) |-> k - 1],
                          LAMBDA i : isFirst(i) /\ count(i) >= 2)
  IN [k \in 1..Len(pushed) |-> entry(pushed[k])]

\* the loop over the lengths, from the longest down to 2
RECURSIVE patternsFrom(_, _)
patternsFrom(s, length) ==
  LET joined(longer) ==
        IF longer = longer THEN longer \o patternsFrom(s, length - 1) ELSE longer
  IN IF length < 2 THEN <<>> ELSE joined(patternsOfLength(s, length))

findAllPotentialPatterns(s) ==
  patternsFrom(s, IF Len(s) \div 2 < 500 THEN Len(s) \div 2 ELSE 500)

\* statistics whose gain leaves out the cost of the decoder entry
withStatsNoOverhead(pattern, text) ==
  LET counted(count) ==
        [pattern EXCEPT !.copies = IF count > 1 THEN count ELSE 1,
                        !.gain = count * pattern.len - count,
                        !.score = count * pattern.len - count]
  IN counted(countHops(text, pattern.string, indexOf(text, pattern.string, 0),
                       Len(pattern.string)))

\* updatePatternStats, first loop: the statistics of one pattern over text
withStats(pattern, text) ==
  LET counted(count) ==
        [pattern EXCEPT !.copies = IF count > 1 THEN count ELSE 1,
                        !.gain = count * pattern.len - count - pattern.len - 2,
                        !.score = count * pattern.len - count - pattern.len - 2]
  IN counted(countHops(text, pattern.string, indexOf(text, pattern.string, 0),
                       Len(pattern.string)))

refreshStats(patterns, text) == [i \in 1..Len(patterns) |-> withStats(patterns[i], text)]

\* updatePatternStats: the statistics, then the removal of the gainless patterns
updatePatternStats(patterns, text) ==
  SelectSeq(refreshStats(patterns, text), LAMBDA pattern : ~(pattern.copies < 2 \/ pattern.gain <= 0))

\* the comparator of sortPatterns: a negative result puts a first
comparePatterns(a, b) ==
  IF b.gain # a.gain THEN b.gain - a.gain
  ELSE IF b.len # a.len THEN b.len - a.len
  ELSE b.copies - a.copies

\* Array.prototype.sort is stable: an element's place is the number of elements
\* that the comparator puts before it, or that tie with it and stand earlier
stableSort(items, compare(_, _)) ==
  LET n == Len(items)
      rank(i) == 1 + Cardinality({j \in 1..n :
                                    \/ compare(items[j], items[i]) < 0
                                    \/ (compare(items[j], items[i]) = 0 /\ j < i)})
  IN [r \in 1..n |-> items[CHOOSE i \in 1..n : rank(i) = r]]

sortPatterns(patterns) == stableSort(patterns, comparePatterns)

(***************************************************************************)
(* GainPredictor                                                           *)
(***************************************************************************)
\* for (i = 122; !c && i > 0; i--): the highest code that text and usedTokens lack
predictorToken(text, usedTokens) ==
  LET highest(free) == IF free = {} THEN <<>> ELSE <<Max(free)>>
  IN highest({i \in 1..122 : i \notin Chars(text) /\ i \notin usedTokens})

\* predictMultiLevelGain; the predictionCache is passed in and handed back:
\* the result is [value, cache]
RECURSIVE predictMultiLevelGain(_, _, _, _, _, _)
predictMultiLevelGain(cache, text, availablePatterns, lookAheadDepth, depth, usedTokens) ==
  LET summed(pattern, future) ==
        [value |-> pattern.gain + future.value,
         cache |-> setCount(future.cache, text, pattern.gain + future.value)]
      replaced(patterns, pattern, c) ==
        IF c = <<>>
        THEN [value |-> pattern.gain, cache |-> setCount(cache, text, pattern.gain)]
        ELSE summed(pattern,
                    predictMultiLevelGain(
                      cache,
                      matchAndReplaceAll(text, pattern.string, c, <<>>, c \o pattern.string),
                      SelectSeq(patterns, LAMBDA q : q.string # pattern.string),
                      lookAheadDepth, depth + 1, usedTokens \cup {c[1]}))
      sorted(patterns) ==
        IF Len(patterns) = 0 \/ patterns[1].gain <= 0
        THEN [value |-> 0, cache |-> setCount(cache, text, 0)]
        ELSE replaced(patterns, patterns[1], predictorToken(text, usedTokens))
  IN IF keyIndex(cache, text) > 0 THEN [value |-> getCount(cache, text), cache |-> cache]
     ELSE IF depth >= lookAheadDepth \/ Len(availablePatterns) = 0
     THEN [value |-> 0, cache |-> cache]
     ELSE sorted(sortPatterns(updatePatternStats(availablePatterns, text)))

(***************************************************************************)
(* BeamSearchSolver.findOptimalReplacements (first stage of SlowPack)      *)
(* A search state is [text, tokens, replacements, availablePatterns,       *)
(* score, predictedScore, depth]; the search graph is not modelled.        *)
(***************************************************************************)
maxIterations == 100000

\* the fields maxBeamWidth, lookAheadDepth and maxReplacements of a new solver
freshSolver == [maxBeamWidth |-> 5, lookAheadDepth |-> 150, maxReplacements |-> 100]

\* lines 98-100: an option that is truthy overwrites the field of the instance, a
\* field whose option is absent keeps the value an earlier call left
assignSolver(fields, opt) ==
  [maxBeamWidth |-> IF opt.beamWidth # 0 THEN opt.beamWidth ELSE fields.maxBeamWidth,
   lookAheadDepth |-> IF opt.lookAheadDepth # 0 THEN opt.lookAheadDepth
                      ELSE fields.lookAheadDepth,
   maxReplacements |-> IF opt.maxReplacements # 0 THEN opt.maxReplacements
                       ELSE fields.maxReplacements]

\* the options with the three fields of the instance in the place of the options
\* they come from: what the search reads after lines 98-100
solverOptions(fields, opt) ==
  [opt EXCEPT !.beamWidth = fields.maxBeamWidth, !.lookAheadDepth = fields.lookAheadDepth,
              !.maxReplacements = fields.maxReplacements]

\* the fields the constructor sets, overridden by the truthy options
maxBeamWidth(opt) == IF opt.beamWidth # 0 THEN opt.beamWidth ELSE 5

lookAheadDepth(opt) == IF opt.lookAheadDepth # 0 THEN opt.lookAheadDepth ELSE 150

maxReplacements(opt) == IF opt.maxReplacements # 0 THEN opt.maxReplacements ELSE 100

\* the comparator of sortCandidates; the scores are integers, so two predicted
\* scores differ by more than 0.1 exactly when they differ
compareCandidates(opt, a, b) ==
  IF opt.prioritizeHighestGain /\ b.score # a.score THEN b.score - a.score
  ELSE IF b.predictedScore # a.predictedScore THEN b.predictedScore - a.predictedScore
  ELSE b.score - a.score

sortCandidates(candidates, opt) ==
  LET compare(a, b) == compareCandidates(opt, a, b)
  IN stableSort(candidates, compare)

\* lines 267-274: the first candidate of every text
uniqueCandidates(candidates) ==
  LET firstOfText(i) == \A j \in 1..(i - 1) : candidates[j].text # candidates[i].text
      kept(indices) == [k \in 1..Len(indices) |-> candidates[indices[k]]]
  IN kept(SelectSeq([i \in 1..Len(candidates) |-> i], firstOfText))

\* lines 114-147: the start state and its prediction; the result is [state, cache]
startSearch(contents, opt) ==
  LET started(initialPatterns, predicted) ==
        [state |-> [text |-> contents, tokens |-> <<>>, replacements |-> <<>>,
                    availablePatterns |-> initialPatterns, score |-> 0,
                    predictedScore |-> predicted.value, depth |-> 0],
         cache |-> predicted.cache]
      analysed(initialPatterns) ==
        started(initialPatterns,
                predictMultiLevelGain(<<>>, contents, initialPatterns, lookAheadDepth(opt),
                                      0, {}))
  IN analysed(findAllPotentialPatterns(contents))

\* lines 186-259, the loop over the patterns to try; acc = [candidates, cache]
RECURSIVE tryPatterns(_, _, _, _, _, _)
tryPatterns(acc, state, mergedPatterns, i, patternsToTry, opt) ==
  LET pushed(pattern, c, newText, remainingPatterns, future) ==
        tryPatterns([candidates |->
                       Append(acc.candidates,
                              [text |-> newText,
                               tokens |-> c \o state.tokens,
                               replacements |-> Append(state.replacements,
                                                       [pattern EXCEPT !.token = c]),
                               availablePatterns |-> remainingPatterns,
                               score |-> state.score + pattern.gain,
                               predictedScore |-> state.score + pattern.gain + future.value,
                               depth |-> state.depth + 1]),
                     cache |-> future.cache],
                    state, mergedPatterns, i + 1, patternsToTry, opt)
      predicted(pattern, c, newText, remainingPatterns) ==
        pushed(pattern, c, newText, remainingPatterns,
               predictMultiLevelGain(acc.cache, newText, remainingPatterns,
                                     lookAheadDepth(opt), 0, {}))
      tried(pattern, c) ==
        IF pattern.gain <= 0 \/ c = <<>>
        THEN tryPatterns(acc, state, mergedPatterns, i + 1, patternsToTry, opt)
        ELSE predicted(pattern, c,
                       matchAndReplaceAll(state.text, pattern.string, c, <<>>,
                                          c \o pattern.string),
                       SelectSeq(mergedPatterns, LAMBDA q : q.string # pattern.string))
  IN IF i > patternsToTry THEN acc ELSE tried(mergedPatterns[i], pickToken(state.text))

\* lines 152-261, the body of the loop over the beam for one state;
\* acc = [candidates, cache, progress].  updatePatternStats writes the statistics
\* into the pattern objects that state.availablePatterns shares with mergedPatterns.
expandState(acc, state, headLength, iteration, opt) ==
  LET progress == IF opt.onProgress /\ iteration % 10 = 0
                  THEN Append(acc.progress,
                              [num |-> maxReplacements(opt) + 8 * headLength,
                               den |-> 10 * maxReplacements(opt)])
                  ELSE acc.progress
      pushed(touched, tried) ==
        [candidates |-> Append(tried.candidates, touched), cache |-> tried.cache,
         progress |-> progress]
      branched(touched, mergedPatterns, branchFactor) ==
        pushed(touched,
               tryPatterns([candidates |-> acc.candidates, cache |-> acc.cache],
                           touched, mergedPatterns, 1,
                           IF branchFactor < Len(mergedPatterns)
                           THEN branchFactor ELSE Len(mergedPatterns),
                           opt))
      sorted(touched, mergedPatterns) ==
        IF Len(mergedPatterns) = 0 \/ mergedPatterns[1].gain <= 0
        THEN [candidates |-> Append(acc.candidates, touched), cache |-> acc.cache,
              progress |-> progress]
        ELSE branched(touched, mergedPatterns,
                      IF opt.branchFactor # 0 THEN opt.branchFactor ELSE 20)
      merged(existingStrings, newPatterns) ==
        sorted([state EXCEPT !.availablePatterns = refreshStats(@, state.text)],
               sortPatterns(updatePatternStats(
                 state.availablePatterns
                   \o SelectSeq(newPatterns, LAMBDA q : q.string \notin existingStrings),
                 state.text)))
  IN IF Len(state.tokens) >= Len(Q) \/ Len(state.replacements) >= maxReplacements(opt)
     THEN [acc EXCEPT !.candidates = Append(@, state)]
     ELSE merged({state.availablePatterns[i].string : i \in 1..Len(state.availablePatterns)},
                 findAllPotentialPatterns(state.text))

RECURSIVE expandBeam(_, _, _, _, _, _)
expandBeam(acc, beam, k, headLength, iteration, opt) ==
  LET expanded(next) ==
        IF next = next THEN expandBeam(next, beam, k + 1, headLength, iteration, opt)
        ELSE next
  IN IF k > Len(beam) THEN acc
     ELSE expanded(expandState(acc, beam[k], headLength, iteration, opt))

\* one iteration of the loop of lines 149-289;
\* search = [beam, bestSolution, iteration, cache, progress, searching, highest];
\* highest is not a variable of the source: it records the highest score of any
\* state that has been in the beam after an iteration
searchIteration(search, opt) ==
  LET selected(expanded, beam) ==
        [beam |-> beam,
         highest |-> Max({beam[k].score : k \in 1..Len(beam)} \cup {search.highest}),
         bestSolution |-> IF beam[1].score > search.bestSolution.score
                          THEN beam[1] ELSE search.bestSolution,
         iteration |-> search.iteration + 1,
         cache |-> expanded.cache,
         progress |-> expanded.progress,
         searching |-> ~(\/ Len(beam[1].availablePatterns) = 0
                         \/ beam[1].availablePatterns[1].gain <= 0
                         \/ Len(beam[1].replacements) >= maxReplacements(opt))]
      cut(expanded, unique) ==
        selected(expanded, SubSeq(unique, 1, IF maxBeamWidth(opt) < Len(unique)
                                             THEN maxBeamWidth(opt) ELSE Len(unique)))
      ranked(expanded) ==
        cut(expanded, uniqueCandidates(sortCandidates(expanded.candidates, opt)))
  IN ranked(expandBeam([candidates |-> <<>>, cache |-> search.cache, progress |-> <<>>],
                       search.beam, 1, Len(search.beam[1].replacements),
                       search.iteration + 1, opt))

(***************************************************************************)
(* Replacer (digit tokens) and branch-search.worker.ts                     *)
(* Gains and scores are real numbers in the source.  Here a gain is in     *)
(* units of 1/GainUnit and a score in units of 1/(ScoreScale * GainUnit),  *)
(* so that count + 0.3 * (overlap - count), pow(0.8, i) and the factor 0.5 *)
(* are exact.  A state of either search is                                 *)
(* [text, replacements, patterns, totalGain, score].                       *)
(***************************************************************************)
DOLLAR == 36

LBRACE == 123

PIPE == 124
DIGIT0 == 48
GainUnit == 10
ScoreScale == 2 * 5^9

\* Number.prototype.toString of a natural number
RECURSIVE toString(_)
toString(n) ==
  IF n < 10 THEN <<DIGIT0 + n>> ELSE Append(toString(n \div 10), DIGIT0 + (n % 10))

\* a test for the digit 0 alone
hasZero(s) == \E k \in 1..Len(s) : s[k] = DIGIT0

\* /[0-9]/.test(s)
hasDigit(s) == \E k \in 1..Len(s) : s[k] \in DIGIT0..(DIGIT0 + 9)

\* new Replacer(options.maxInt || 10), whose constructor keeps
\* Math.min(Math.max(1, maxInt), 100) as maxReplacements
replacerMaxReplacements(opt) ==
  LET clamped(maxInt) == Min({Max({1, maxInt}), 100})
  IN clamped(IF opt.maxInt = 0 THEN 10 ELSE opt.maxInt)

\* MAX_REPLACEMENTS and MAX_DEPTH of the worker
MAX_REPLACEMENTS == 10

\* a pattern as findAllPatterns and the worker's findAllPotentialPatterns push it
newPattern(pattern, count) ==
  [string |-> pattern,
   gain |-> GainUnit * ((Len(pattern) - 1) * count - Len(pattern) - 1),
   copies |-> count, len |-> Len(pattern), score |-> GainUnit * Len(pattern) * count]

\* Replacer.findAllPatterns, the loop over i for one length: occurrences are
\* counted with indexOf(pattern, pos + 1), overlaps included
findAllPatternsOfLength(s, length) ==
  LET isFirst(i) == \A p \in 0..(i - 1) : ~sameSubstring(s, i, p, length)
      pattern(i) == substring(s, i, i + length)
      pushed == SelectSeq([k \in 1..(Len(s) - length + 1) |-> k - 1],
                          LAMBDA i : isFirst(i) /\ ~hasDigit(pattern(i))
                                     /\ countOverlapping(s, pattern(i)) >= 2)
  IN [k \in 1..Len(pushed) |->
        newPattern(pattern(pushed[k]), countOverlapping(s, pattern(pushed[k])))]

RECURSIVE findAllPatternsFrom(_, _)
findAllPatternsFrom(s, length) ==
  LET joined(longer) ==
        IF longer = longer THEN longer \o findAllPatternsFrom(s, length - 1) ELSE longer
  IN IF length < 2 THEN <<>> ELSE joined(findAllPatternsOfLength(s, length))

findAllPatterns(s) == findAllPatternsFrom(s, IF Len(s) \div 2 < 100 THEN Len(s) \div 2 ELSE 100)

\* the worker's findAllPotentialPatterns, one length: the positions of every
\* substring are collected, a substring with two positions or more is pushed
workerPatternsOfLength(s, length) ==
  LET positions(i) == {p \in 0..(Len(s) - length) : sameSubstring(s, i, p, length)}
      pattern(i) == substring(s, i, i + length)
      pushed == SelectSeq([k \in 1..(Len(s) - length + 1) |-> k - 1],
                          LAMBDA i : i = Min(positions(i)) /\ ~hasDigit(pattern(i))
                                     /\ Cardinality(positions(i)) >= 2)
  IN [k \in 1..Len(pushed) |-> newPattern(pattern(pushed[k]), Cardinality(positions(pushed[k])))]

RECURSIVE workerPatternsFrom(_, _)
workerPatternsFrom(s, length) ==
  LET joined(longer) ==
        IF longer = longer THEN longer \o workerPatternsFrom(s, length - 1) ELSE longer
  IN IF length < 2 THEN <<>> ELSE joined(workerPatternsOfLength(s, length))

workerFindAllPotentialPatterns(s) ==
  workerPatternsFrom(s, IF Len(s) \div 2 < 100 THEN Len(s) \div 2 ELSE 100)

\* updatePatternStats of the Replacer and of the worker, first loop
digitStats(pattern, text) ==
  LET adjusted(count, adjustedCount) ==
        [pattern EXCEPT !.copies = IF count > 1 THEN count ELSE 1,
                        !.gain = (pattern.len - 1) * adjustedCount - GainUnit * pattern.len
                                   - GainUnit,
                        !.score = pattern.len * adjustedCount]
      counted(count, overlapCount) ==
        adjusted(count, GainUnit * count + 3 * (overlapCount - count))
  IN counted(countHops(text, pattern.string, indexOf(text, pattern.string, 0),
                       Len(pattern.string)),
             countHops(text, pattern.string, indexOf(text, pattern.string, 1), 1))

\* updatePatternStats: the statistics, then the removal of the gainless patterns
digitUpdatePatternStats(patterns, text) ==
  SelectSeq([i \in 1..Len(patterns) |-> digitStats(patterns[i], text)],
            LAMBDA pattern : ~(pattern.copies < 2 \/ pattern.gain <= 0))

\* sort((a, b) => b.gain - a.gain) and sort((a, b) => b.score - a.score)
compareGain(a, b) == b.gain - a.gain

compareScore(a, b) == b.score - a.score

\* Math.pow(0.8, i) in units of 1/5^9, for i < 10; the inputs of this model have
\* fewer than ten gainful patterns
powWeight(i) == 4^i * 5^(9 - i)

\* the loop of estimateFutureGain over the sorted copy
RECURSIVE weightedGain(_, _, _)
weightedGain(patternsCopy, i, maxPatternsToConsider) ==
  IF i >= maxPatternsToConsider THEN 0
  ELSE IF patternsCopy[i + 1].gain <= 0 THEN 0
  ELSE patternsCopy[i + 1].gain * powWeight(i)
       + weightedGain(patternsCopy, i + 1, maxPatternsToConsider)

\* estimateFutureGain; the result is in units of 1/(5^9 * GainUnit)
\* limit is this.maxReplacements in the Replacer and 10 in the worker
estimateFutureGain(patterns, text, limit) ==
  LET weighted(patternsCopy) ==
        weightedGain(patternsCopy, 0, Min({limit, Len(patternsCopy)}))
  IN weighted(stableSort(digitUpdatePatternStats(patterns, text), compareGain))

\* the body of the loop over i: the state that replaces pattern by the next digit;
\* the worker's estimateFutureGain works on the pattern objects of the new state
\* themselves (inPlace), the Replacer's on a deep copy
digitChild(state, patterns, pattern, inPlace, limit) ==
  LET replaced(newText, remainingPatterns) ==
        [text |-> newText, replacements |-> Append(state.replacements, pattern.string),
         patterns |-> IF inPlace
                      THEN [i \in 1..Len(remainingPatterns) |->
                              digitStats(remainingPatterns[i], newText)]
                      ELSE remainingPatterns,
         totalGain |-> state.totalGain + pattern.gain,
         score |-> ScoreScale * (state.totalGain + pattern.gain)
                     + estimateFutureGain(remainingPatterns, newText, limit)]
      numbered(digit) ==
        replaced(matchAndReplaceAll(state.text, pattern.string, digit, <<>>, <<>>),
                 SelectSeq(patterns, LAMBDA p : /\ indexOf(p.string, digit, 0) = -1
                                                /\ indexOf(p.string, pattern.string, 0) = -1
                                                /\ indexOf(pattern.string, p.string, 0) = -1))
  IN numbered(toString(Len(state.replacements)))

\* the children of a state over its five best patterns; patterns is sorted
digitChildren(state, patterns, inPlace, limit) ==
  LET children(gainful) ==
        [i \in 1..Len(gainful) |-> digitChild(state, patterns, gainful[i], inPlace, limit)]
  IN children(SelectSeq(SubSeq(patterns, 1, IF Len(patterns) < 5 THEN Len(patterns) ELSE 5),
                        LAMBDA pattern : pattern.gain > 0))

rootState(input, allPatterns) ==
  [text |-> input, replacements |-> <<>>, patterns |-> allPatterns, totalGain |-> 0, score |-> 0]

RECURSIVE flatten(_)
flatten(lists) == IF lists = <<>> THEN <<>> ELSE lists[1] \o flatten(Tail(lists))

\* compressWithDigitReplacements: the candidates one beam state contributes;
\* updatePatternStats and sort change state.patterns in place
replacerExpand(state, opt) ==
  LET sorted(patterns, touched) ==
        IF patterns = <<>> THEN <<touched>>
        ELSE digitChildren(touched, patterns, FALSE, replacerMaxReplacements(opt)) \o <<touched>>
      updated(patterns) == sorted(patterns, [state EXCEPT !.patterns = patterns])
  IN IF Len(state.replacements) >= replacerMaxReplacements(opt) \/ state.patterns = <<>>
     THEN <<state>>
     ELSE updated(stableSort(digitUpdatePatternStats(state.patterns, state.text), compareGain))

\* options.beamWidth || 5
digitBeamWidth(opt) == IF opt.beamWidth = 0 THEN 5 ELSE opt.beamWidth

\* one pass of the loop over depth; st = [beam, bestSolution, depth, searching]
replacerIteration(st, opt) ==
  LET selected(beam) ==
        [beam |-> beam,
         bestSolution |-> IF beam[1].totalGain > st.bestSolution.totalGain
                          THEN beam[1] ELSE st.bestSolution,
         depth |-> st.depth + 1,
         searching |-> ~(beam[1].patterns = <<>> \/ beam[1].patterns[1].gain <= 0)]
      cut(candidates) ==
        selected(SubSeq(candidates, 1, IF Len(candidates) < digitBeamWidth(opt)
                                       THEN Len(candidates) ELSE digitBeamWidth(opt)))
  IN cut(stableSort(flatten([k \in 1..Len(st.beam) |-> replacerExpand(st.beam[k], opt)]),
                    compareScore))

\* the worker: what one beam state contributes; visited are the states offered
\* to globalBestState, in order
workerExpand(state) ==
  LET pushed(children) == [candidates |-> children, visited |-> children]
      sorted(patterns, touched) ==
        IF patterns = <<>> THEN [candidates |-> <<>>, visited |-> <<touched>>]
        ELSE pushed(digitChildren(touched, patterns, TRUE, 10))
      updated(patterns) == sorted(patterns, [state EXCEPT !.patterns = patterns])
  IN IF Len(state.replacements) >= MAX_REPLACEMENTS \/ state.patterns = <<>>
     THEN [candidates |-> <<>>, visited |-> <<state>>]
     ELSE updated(stableSort(digitUpdatePatternStats(state.patterns, state.text), compareGain))

\* if (!globalBestState || state.totalGain > globalBestState.totalGain)
RECURSIVE offerBest(_, _)
offerBest(globalBestState, visited) ==
  IF visited = <<>> THEN globalBestState
  ELSE offerBest(IF globalBestState = <<>> \/ visited[1].totalGain > globalBestState[1].totalGain
                 THEN <<visited[1]>> ELSE globalBestState,
                 Tail(visited))

\* one pass of the worker's loop over depth after its progress report;
\* st = [beam, globalBestState, bestState, depth, searching, root, timeLimit, beamWidth,
\* maxStates, nodesExplored, highestGain]; highestGain is not a variable of the
\* source: it records the highest totalGain of any state created so far
workerIteration(st, opt) ==
  LET selected(globalBestState, beam, created) ==
        [st EXCEPT !.beam = beam, !.globalBestState = globalBestState,
                   !.bestState = <<beam[1]>>, !.depth = st.depth + 1,
                   !.nodesExplored = @ + Len(created),
                   !.highestGain = Max({@} \cup {created[k].totalGain : k \in 1..Len(created)})]
      cut(globalBestState, candidates) ==
        IF candidates = <<>>
        THEN [st EXCEPT !.globalBestState = globalBestState, !.searching = FALSE]
        ELSE selected(globalBestState,
                      SubSeq(candidates, 1, IF Len(candidates) < digitBeamWidth(opt)
                                            THEN Len(candidates) ELSE digitBeamWidth(opt)),
                      candidates)
      ranked(expanded) ==
        cut(offerBest(st.globalBestState,
                      flatten([k \in 1..Len(expanded) |-> expanded[k].visited])),
            stableSort(flatten([k \in 1..Len(expanded) |-> expanded[k].candidates]),
                       compareScore))
  IN ranked([k \in 1..Len(st.beam) |-> workerExpand(st.beam[k])])

\* a worker that returns the state it started from
searchDiscarded(st) == st.root

\* globalBestState || bestState || rootState
finalBestState(st) ==
  IF st.globalBestState # <<>> THEN st.globalBestState[1]
  ELSE IF st.bestState # <<>> THEN st.bestState[1]
  ELSE st.root

\* "\d" and "\d+"
oneDigit == <<92, 100>>

digitRun == <<92, 100, 43>>

\* this.maxReplacements <= 10 ? "\\d" : "\\d+"
decoderPattern(maxCount) == IF maxCount <= 10 THEN oneDigit ELSE digitRun

\* ".replace(/${decoderPattern}/g,i=>", ".split" and "[i])"
replaceCall(pattern) ==
  <<46, 114, 101, 112, 108, 97, 99, 101, 40, 47>> \o pattern \o <<47, 103, 44, 105, 61, 62>>

splitCall == <<46, 115, 112, 108, 105, 116>>

indexCall == <<91, 105, 93, 41>>

\* `${s}`.replace(/${decoderPattern}/g,i=>`${replacements.join("|")}`.split`|`[i])
packedOutput(text, list, pattern) ==
  <<BACKTICK>> \o text \o <<BACKTICK>> \o replaceCall(pattern) \o <<BACKTICK>> \o list
    \o <<BACKTICK>>
    \o splitCall \o <<BACKTICK, PIPE, BACKTICK>> \o indexCall

\* encodeURI(s).replace(/%../g, "i").length: a code below 128 is kept or becomes one
\* escape, and counts for one
getByteLength(s) == Len(s)

\* the output of compressWithDigitReplacements:
\* `text`.replace(/pattern/g, i => `list`.split`|`[i])
digitArtefact(text, replacements, pattern) ==
  LET packed(list) ==
        [status |-> "packed", text |-> text, replacements |-> replacements,
         patternList |-> list, decoder |-> TRUE, decoderPattern |-> pattern,
         verification |-> "",
         output |-> packedOutput(text, list, pattern),
         length |-> getByteLength(packedOutput(text, list, pattern)),
         details |-> "report"]
  IN packed(join(replacements, <<PIPE>>))

\* the output that compressWithWorker builds from a result message: the same with
\* the pattern \d, but the text alone when there is no replacement
workerArtefact(text, replacements) ==
  IF replacements # <<>> THEN digitArtefact(text, replacements, oneDigit)
  ELSE [digitArtefact(text, replacements, oneDigit) EXCEPT
          !.decoder = FALSE, !.output = text, !.length = getByteLength(text)]

\* "undefined"
undefinedText == <<117, 110, 100, 101, 102, 105, 110, 101, 100>>

isDigit(c) == c \in DIGIT0..(DIGIT0 + 9)

\* the end of the match of pattern that starts at the digit text[k]: \d matches that
\* digit alone, \d+ the longest run of digits
RECURSIVE matchEnd(_, _, _)
matchEnd(text, k, pattern) ==
  IF pattern = digitRun /\ k < Len(text) /\ isDigit(text[k + 1])
  THEN matchEnd(text, k + 1, pattern) ELSE k

\* the value of the decimal numeral s, capped at limit
RECURSIVE numeralValue(_, _, _)
numeralValue(s, value, limit) ==
  IF s = <<>> \/ value >= limit THEN value
  ELSE numeralValue(Tail(s), 10 * value + (s[1] - DIGIT0), limit)

\* pieces[i] for the matched text i: the element of that index when i is the
\* numeral of an index of the array, undefined otherwise
pieceAt(pieces, i) ==
  LET indexed(n) == IF n < Len(pieces) /\ toString(n) = i THEN pieces[n + 1] ELSE undefinedText
  IN indexed(numeralValue(i, 0, Len(pieces)))

\* String.prototype.replace with a global pattern, from position k on
RECURSIVE replaceMatches(_, _, _, _)
replaceMatches(text, k, pieces, pattern) ==
  LET matched(last) ==
        pieceAt(pieces, SubSeq(text, k, last)) \o replaceMatches(text, last + 1, pieces, pattern)
  IN IF k > Len(text) THEN <<>>
     ELSE IF isDigit(text[k]) THEN matched(matchEnd(text, k, pattern))
     ELSE <<text[k]>> \o replaceMatches(text, k + 1, pieces, pattern)

\* the emitted decoder: every match of the pattern in the packed text becomes the
\* piece of that index of the pattern list split on |; a missing piece prints as
\* undefined
decodeDigits(text, patternList, pattern) ==
  replaceMatches(text, 1, split(patternList, <<PIPE>>), pattern)

\* the replacement string of String.prototype.replace for one match: $$ stands for
\* $, $& for the match, $` for the text before it and $' for the text after it; the
\* pattern has no group, so that any other $ stands for itself
RECURSIVE expandReplacement(_, _, _, _)
expandReplacement(replacement, matched, before, after) ==
  LET special(c) ==
        CASE c = DOLLAR -> <<DOLLAR>>
          [] c = 38 -> matched
          [] c = BACKTICK -> before
          [] OTHER -> after
  IN IF replacement = <<>> THEN <<>>
     ELSE IF replacement[1] = DOLLAR /\ Len(replacement) > 1
             /\ replacement[2] \in {DOLLAR, 38, BACKTICK, 39}
     THEN special(replacement[2])
            \o expandReplacement(SubSeq(replacement, 3, Len(replacement)), matched, before, after)
     ELSE <<replacement[1]>> \o expandReplacement(Tail(replacement), matched, before, after)

\* unpacked.replace(regex, replacement) from position k on, where regex is \d
\* repeated width times with the flag g
RECURSIVE replaceDigitRuns(_, _, _, _)
replaceDigitRuns(text, k, width, replacement) ==
  IF k > Len(text) THEN <<>>
  ELSE IF k + width - 1 <= Len(text) /\ \A j \in k..(k + width - 1) : isDigit(text[j])
  THEN expandReplacement(replacement, SubSeq(text, k, k + width - 1), SubSeq(text, 1, k - 1),
                         SubSeq(text, k + width, Len(text)))
         \o replaceDigitRuns(text, k + width, width, replacement)
  ELSE <<text[k]>> \o replaceDigitRuns(text, k + 1, width, replacement)

\* the loop of verifyUnpacking over i: i.toString().replace(/\d/g, "\\d") is \d once
\* for every digit of the numeral of i
RECURSIVE unpackLoop(_, _, _, _)
unpackLoop(unpacked, replacements, i, maxCount) ==
  IF ~(i < maxCount /\ i < Len(replacements)) THEN unpacked
  ELSE unpackLoop(replaceDigitRuns(unpacked, 1, Len(toString(i)), replacements[i + 1]),
                  replacements, i + 1, maxCount)

\* Replacer.verifyUnpacking: "Verification: passed" or "Verification: failed"
replacerVerifyUnpacking(original, compressed, replacements, maxCount) ==
  IF unpackLoop(compressed, replacements, 0, maxCount) = original THEN "passed" ELSE "failed"

\* the details of an artefact end with the report of verifyUnpacking
verifiedArtefact(a, original, maxCount) ==
  [a EXCEPT !.verification = replacerVerifyUnpacking(original, a.text, a.replacements, maxCount)]

\* the value of one hexadecimal digit, -1 for any other code
hexDigit(c) ==
  IF c \in 48..57 THEN c - 48
  ELSE IF c \in 97..102 THEN c - 87
  ELSE IF c \in 65..70 THEN c - 55
  ELSE -1

\* the value of the hexadecimal digits s[k..last]
RECURSIVE hexValue(_, _, _, _)
hexValue(s, k, last, value) ==
  IF k > last THEN value ELSE hexValue(s, k + 1, last, 16 * value + hexDigit(s[k]))

\* the literal does not evaluate to a string made of its own text: it ends early at
\* a backtick, holds an escape that is not allowed, or holds a substitution
notAString == [ok |-> FALSE, value |-> <<>>]

\* the packed output is source text, `${s}` followed by the decoder: the string value
\* of the template literal whose body is s.  A backslash starts an escape sequence,
\* a carriage return reads as a line feed
RECURSIVE templateValue(_, _, _)
templateValue(s, k, out) ==
  LET escaped(c) ==
        CASE c = 98 -> templateValue(s, k + 2, Append(out, 8))
          [] c = 116 -> templateValue(s, k + 2, Append(out, 9))
          [] c = 110 -> templateValue(s, k + 2, Append(out, 10))
          [] c = 118 -> templateValue(s, k + 2, Append(out, 11))
          [] c = 102 -> templateValue(s, k + 2, Append(out, 12))
          [] c = 114 -> templateValue(s, k + 2, Append(out, 13))
          [] c = 10 -> templateValue(s, k + 2, out)
          [] c = CR -> templateValue(s, IF k + 2 <= Len(s) /\ s[k + 2] = 10 THEN k + 3 ELSE k + 2,
                                     out)
          [] c = 48 -> IF k + 2 <= Len(s) /\ s[k + 2] \in 48..57 THEN notAString
                       ELSE templateValue(s, k + 2, Append(out, 0))
          [] c \in 49..57 -> notAString
          [] c = 120 -> IF k + 3 <= Len(s) /\ hexDigit(s[k + 2]) >= 0 /\ hexDigit(s[k + 3]) >= 0
                        THEN templateValue(s, k + 4, Append(out, hexValue(s, k + 2, k + 3, 0)))
                        ELSE notAString
          [] c = 117 -> IF k + 5 <= Len(s) /\ \A j \in (k + 2)..(k + 5) : hexDigit(s[j]) >= 0
                        THEN templateValue(s, k + 6, Append(out, hexValue(s, k + 2, k + 5, 0)))
                        ELSE notAString
          [] OTHER -> templateValue(s, k + 2, Append(out, c))
  IN IF k > Len(s) THEN [ok |-> TRUE, value |-> out]
     ELSE IF s[k] = BACKTICK THEN notAString
     ELSE IF s[k] = DOLLAR /\ k < Len(s) /\ s[k + 1] = LBRACE THEN notAString
     ELSE IF s[k] = BACKSLASH THEN IF k = Len(s) THEN notAString ELSE escaped(s[k + 1])
     ELSE IF s[k] = CR
     THEN templateValue(s, IF k < Len(s) /\ s[k + 1] = 10 THEN k + 2 ELSE k + 1, Append(out, 10))
     ELSE templateValue(s, k + 1, Append(out, s[k]))

\* what the emitted output evaluates to: the decoder applied to the values of the
\* two literals; the output that compressWithWorker builds without a replacement is
\* the text alone
evaluateArtefact(a) ==
  LET decoded(text, patternList) ==
        IF text.ok /\ patternList.ok
        THEN [ok |-> TRUE, value |-> decodeDigits(text.value, patternList.value, a.decoderPattern)]
        ELSE notAString
  IN IF a.decoder
     THEN decoded(templateValue(a.text, 1, <<>>), templateValue(a.patternList, 1, <<>>))
     ELSE [ok |-> TRUE, value |-> a.text]

(***************************************************************************)
(* Inputs                                                                  *)
(***************************************************************************)
\* the blocks "abcd", "ab" and "x"
Blocks == {<<97, 98, 99, 100>>, <<97, 98>>, <<120>>}

RECURSIVE BlockStrings(_)
BlockStrings(n) ==
  IF n = 0 THEN {<<>>}
  ELSE LET shorter == BlockStrings(n - 1)
       IN shorter \cup {b \o s : b \in Blocks, s \in shorter}

\* every code of 1..126 except the delimiter, the carriage return and a free set
Filler(free) == ascending((1..LASTCODE) \ (free \cup {BACKTICK, CR}))

\* "abcabcabc"
Core == <<97, 98, 99, 97, 98, 99, 97, 98, 99>>

\* the codes that stay unused in the inputs that use nearly every byte
FreeSets == {{88}, {CARET}, {RBRACKET, CARET}, {CARET, 95}, {}}

NearlyFull == {Filler(free) \o Core : free \in FreeSets}

\* every code of 1..126 except the delimiter, the carriage return included
Full == ascending((1..LASTCODE) \ {packedStringDelimiter}) \o Core

\* "{|}~abcabcabcdefdefdefghighighi": three patterns of gain 1, and a text in which
\* the solver and the predictor choose the same tokens
CacheExtra ==
  <<123, 124, 125, 126, 97, 98, 99, 97, 98, 99, 97, 98, 99, 100, 101, 102, 100, 101, 102,
    100, 101, 102, 103, 104, 105, 103, 104, 105, 103, 104, 105>>

\* "a\ba\ba\b": the pattern "a\b" holds a backslash
Escaped == <<97, 92, 98, 97, 92, 98, 97, 92, 98>>

\* a tab followed by "abcabcabc": the line feed is free and the code before it is not
Tabbed == <<9>> \o Core

\* every printable code, 32..126, the delimiter included
Printable == ascending(32..LASTCODE) \o Core

\* "xabcdxabxxabcd" and "abcdabcdababcdabab": the search binds two replacements
SearchExtras ==
  {<<120, 97, 98, 99, 100, 120, 97, 98, 120, 120, 97, 98, 99, 100>>,
   <<97, 98, 99, 100, 97, 98, 99, 100, 97, 98, 97, 98, 99, 100, 97, 98, 97, 98>>}

\* "bcbcbcabcdbcabcdabcdbc": replacing "abcd" gains less than replacing "bc" and
\* promises more
BeamExtra ==
  <<98, 99, 98, 99, 98, 99, 97, 98, 99, 100, 98, 99, 97, 98, 99, 100, 97, 98, 99, 100, 98, 99>>

Inputs(p) ==
  CASE p = "RegPack" -> BlockStrings(MaxBlocks) \cup NearlyFull \cup {Core, Escaped, Tabbed, Full, Printable}
    [] p = "Crusher" -> BlockStrings(MaxCrusherBlocks) \cup NearlyFull \cup {Core, Escaped, Tabbed, Full, Printable}
    [] OTHER -> BlockStrings(MaxSearchBlocks)
                  \cup {Core, Escaped, Tabbed, Filler({CARET}) \o Core, Full, Printable, BeamExtra,
                        CacheExtra}
                  \cup SearchExtras

\* PackerOptions; a number that is absent (undefined) in the source is 0 here
packerOptions(gain, length, copies) ==
  [crushGainFactor |-> gain, crushLengthFactor |-> length, crushCopiesFactor |-> copies,
   crushTiebreakerFactor |-> 1, beamWidth |-> 0, lookAheadDepth |-> 0, maxReplacements |-> 0,
   branchFactor |-> 0, prioritizeHighestGain |-> FALSE, onProgress |-> FALSE,
   useBranchSearch |-> FALSE, maxInt |-> 0]

\* the defaults of RegPackPreview and the plain gain ranking
CrushOptionSets == {packerOptions(2, 1, 0), packerOptions(1, 0, 0)}

\* the defaults of RegPack2Preview, a search for one replacement, and a narrow
\* search that ranks by gain
SearchOptionSets ==
  {[packerOptions(1, 1, 1) EXCEPT !.beamWidth = 5, !.maxReplacements = 100],
   [packerOptions(1, 1, 1) EXCEPT !.beamWidth = 5, !.maxReplacements = 1],
   [packerOptions(1, 1, 1) EXCEPT !.beamWidth = 5, !.lookAheadDepth = 2],
   [packerOptions(1, 1, 1) EXCEPT !.beamWidth = 2, !.maxReplacements = 2,
                                  !.lookAheadDepth = 1, !.branchFactor = 3,
                                  !.prioritizeHighestGain = TRUE]}

OptionSets(p) == IF p = "SlowPack" THEN SearchOptionSets ELSE CrushOptionSets

(***************************************************************************)
(* State                                                                   *)
(***************************************************************************)
VARIABLES
  pc,               \* position of the run: "start", "stage1", "binding", "done"
  packer,           \* "RegPack", "SlowPack" or "Crusher"
  options,          \* PackerOptions of the run
  contents,         \* packerData.contents, the input
  matchesLookup,    \* packerData.matchesLookup
  result,           \* packerData.result, the stage results pushed so far
  tokenList,        \* the ranges of free codes
  availableTokens,  \* the flat token supply
  binding,          \* local state of the binding loop
  heuristic,        \* this.heuristic of the Crusher
  search,           \* local state of the beam search
  program,          \* what runs: "packer", "Replacer", "branchSearchWorker", "slowPackWorker"
  inbox,            \* messages sent to the worker and not yet handled
  received,         \* messages the worker's onmessage has been called with
  posted,           \* messages the worker has posted, in order
  delivered,        \* how many posted messages the Replacer's handler has seen
  digit,            \* local state of the digit search
  artefact,         \* the artefact of the Replacer
  solver,           \* the fields of the BeamSearchSolver instance
  argument,         \* the heuristic argument of the call of Crusher.runPacker, or "none"
  calls,            \* the calls that have returned on this instance, oldest first
  replacer          \* this.worker of the Replacer and its runs of compressWithWorker

packVars == <<pc, packer, options, contents, matchesLookup, result, tokenList, availableTokens,
              binding, heuristic, search>>

workerVars == <<program, inbox, received, posted, delivered, digit, artefact>>

instanceVars == <<solver, argument, calls, replacer>>

vars == <<packVars, workerVars, instanceVars>>

noBinding == [lookup |-> <<>>, output |-> <<>>, tokenCount |-> 0, tokensRemaining |-> TRUE,
              gainsRemaining |-> TRUE, details |-> <<>>, i |-> 0]

noSearch == [beam |-> <<>>, bestSolution |-> <<>>, iteration |-> 0, cache |-> <<>>,
             progress |-> <<>>, searching |-> FALSE, highest |-> 0]

\* the messages of a worker: { type: "progress", progress: { progress, ... } },
\* { type: "result", ... } and { type: "error", ... }; progress is num / den, and a
\* field that a message does not have is empty or 0
progressMessage(num, den, stage) ==
  [type |-> "progress", num |-> num, den |-> den, stage |-> stage, text |-> <<>>,
   replacements |-> <<>>, totalGain |-> 0]

resultMessage(text, replacements, totalGain) ==
  [type |-> "result", num |-> 0, den |-> 1, stage |-> "", text |-> text,
   replacements |-> replacements, totalGain |-> totalGain]

errorMessage ==
  [type |-> "error", num |-> 0, den |-> 1, stage |-> "", text |-> <<>>, replacements |-> <<>>,
   totalGain |-> 0]

noDigit == [beam |-> <<>>, depth |-> 0, searching |-> FALSE]

noArtefact ==
  [status |-> "none", text |-> <<>>, replacements |-> <<>>, patternList |-> <<>>,
   decoder |-> FALSE, decoderPattern |-> <<>>, verification |-> "", output |-> <<>>,
   length |-> 0, details |-> ""]

\* the result pushed by the catch of Replacer.runPacker: length 0, output "" and
\* details "Error: " followed by the message of the error
errorArtefact(message) ==
  [noArtefact EXCEPT !.status = "error", !.details = "Error: " \o message]

\* the bound on the calls of runPacker on one Replacer
MaxRuns == 2

\* a new Replacer: private worker: Worker | null = null, written 0, and no run yet
noReplacer == [worker |-> 0, runs |-> <<>>]

\* a run of compressWithWorker, recorded for the properties: whether its worker has
\* been terminated, the error event of its worker ("none", "queued" or "fired"), how
\* often its onComplete was called, and whether one of these calls came from a
\* handler that started after the worker had been terminated
newRun == [terminated |-> FALSE, error |-> "none", completions |-> 0, late |-> FALSE]

\* Replacer.terminate: if (this.worker) { this.worker.terminate(); this.worker = null };
\* this.worker is written as the number of the run that created it
terminate(r) ==
  IF r.worker = 0 THEN r
  ELSE [worker |-> 0, runs |-> [r.runs EXCEPT ![r.worker].terminated = TRUE]]

\* the end of a handler of run k: this.terminate(), which acts on the worker the
\* Replacer holds now, and options.onComplete(placeholderResult) of run k
complete(r, k) ==
  [terminate(r) EXCEPT !.runs[k].completions = @ + 1,
                       !.runs[k].late = @ \/ r.runs[k].terminated]

\* the message of the error thrown for an input that holds a digit
digitError == "Input contains digits (0-9) which are used as tokens by Replacer"

Init ==
  /\ program = "packer"
  /\ replacer = noReplacer
  /\ inbox = <<>>
  /\ received = <<>>
  /\ posted = <<>>
  /\ delivered = 0
  /\ digit = noDigit
  /\ artefact = noArtefact
  /\ pc = "start"
  /\ packer \in {"RegPack", "SlowPack", "Crusher"}
  /\ heuristic \in IF packer = "Crusher" THEN Heuristics ELSE {"balanced"}
  /\ argument = heuristic
  /\ solver = freshSolver
  /\ calls = <<>>
  /\ options \in OptionSets(packer)
  /\ contents \in Inputs(packer)
  /\ matchesLookup = <<>>
  /\ result = <<>>
  /\ tokenList = <<>>
  /\ availableTokens = <<>>
  /\ binding = noBinding
  /\ search = noSearch

\* RegPack.runPacker, first stage
RegPackStage1 ==
  /\ pc = "start"
  /\ packer = "RegPack"
  /\ \E r \in {findRedundancies(contents, options)} :
       /\ matchesLookup' = r.matchesLookup
       /\ result' = <<[s |-> r.s, tokens |-> r.tokens, packedString |-> escapePacked(r.s)]>>
  /\ pc' = "stage1"
  /\ UNCHANGED <<packer, options, contents, tokenList, availableTokens, binding, heuristic, search>>
  /\ UNCHANGED workerVars
  /\ UNCHANGED instanceVars

\* Crusher.runPacker, first stage
CrusherStage1 ==
  /\ pc = "start"
  /\ packer = "Crusher"
  /\ \E r \in {compressWithPatterns(contents, options, heuristic)} :
       /\ matchesLookup' = r.matchesLookup
       /\ result' = <<[s |-> r.s, tokens |-> r.tokens, packedString |-> escapePacked(r.s)]>>
  /\ pc' = "stage1"
  /\ UNCHANGED <<packer, options, contents, tokenList, availableTokens, binding, heuristic, search>>
  /\ UNCHANGED workerVars
  /\ UNCHANGED instanceVars

\* findOptimalReplacements up to the search loop
SlowPackStart ==
  /\ pc = "start"
  /\ packer = "SlowPack"
  /\ solver' = assignSolver(solver, options)
  /\ \E started \in {startSearch(contents, solverOptions(assignSolver(solver, options),
                                                         options))} :
       search' = [beam |-> <<started.state>>, bestSolution |-> started.state, iteration |-> 0,
                 cache |-> started.cache, progress |-> <<>>, searching |-> TRUE,
                 highest |-> 0]
  /\ pc' = "searching"
  /\ UNCHANGED <<packer, options, contents, matchesLookup, result, tokenList, availableTokens,
                 binding, heuristic>>
  /\ UNCHANGED workerVars
  /\ UNCHANGED <<argument, calls, replacer>>

\* one iteration of the search loop
SlowPackIterate ==
  /\ pc = "searching"
  /\ search.searching
  /\ search.iteration < maxIterations
  /\ search.iteration < MaxSearchIterations
  /\ search' = searchIteration(search, solverOptions(solver, options))
  /\ posted' = posted \o [k \in 1..Len(search'.progress) |->
                            progressMessage(search'.progress[k].num, search'.progress[k].den,
                                            "searching")]
  /\ UNCHANGED <<pc, packer, options, contents, matchesLookup, result, tokenList,
                 availableTokens, binding, heuristic>>
  /\ UNCHANGED <<program, inbox, received, delivered, digit, artefact>>
  /\ UNCHANGED instanceVars

\* findOptimalReplacements after the loop: the best solution becomes the stage result
SlowPackStage1 ==
  /\ pc = "searching"
  /\ ~(search.searching /\ search.iteration < maxIterations)
  /\ matchesLookup' = search.bestSolution.replacements
  /\ result' = <<[s |-> search.bestSolution.text, tokens |-> search.bestSolution.tokens,
                  packedString |-> escapePacked(search.bestSolution.text)]>>
  /\ pc' = "stage1"
  /\ UNCHANGED <<packer, options, contents, tokenList, availableTokens, binding, heuristic,
                 search>>
  /\ UNCHANGED workerVars
  /\ UNCHANGED instanceVars

\* packToRegexpCharClass, lines 27-134: dependency graph, token ranges, token supply
PrepareTokens ==
  /\ pc = "stage1"
  /\ packer \in {"RegPack", "SlowPack"}
  /\ \E lookup \in {dependencyGraph(matchesLookup)},
        ranges \in {sortRanges(findRanges(Chars(contents)))} :
       /\ matchesLookup' = lookup
       /\ availableTokens' = supplyTokens(ranges)
       /\ tokenList' = repairCaret(ranges, Len(lookup))
       /\ binding' = [noBinding EXCEPT !.lookup = lookup, !.output = contents]
  /\ pc' = "binding"
  /\ UNCHANGED <<packer, options, contents, result, heuristic, search>>
  /\ UNCHANGED workerVars
  /\ UNCHANGED instanceVars

\* optimizeAndPackToRegexp up to the allocation loop
CrusherPrepareTokens ==
  /\ pc = "stage1"
  /\ packer = "Crusher"
  /\ \E lookup \in {dependencyGraph(matchesLookup)} :
       \E ranges \in {buildOptimizedTokenList(contents, Len(lookup))} :
         /\ matchesLookup' = lookup
         /\ tokenList' = ranges
         /\ availableTokens' = supplyTokens(ranges)
         /\ binding' = [noBinding EXCEPT !.lookup = lookup, !.output = contents]
  /\ pc' = "allocating"
  /\ UNCHANGED <<packer, options, contents, result, heuristic, search>>
  /\ UNCHANGED workerVars
  /\ UNCHANGED instanceVars

\* the loop condition of lines 996-1001
allocationContinues ==
  binding.tokenCount < Len(binding.lookup) /\ binding.tokensRemaining /\ binding.gainsRemaining

\* packWithOptimizedTokens, one iteration of the allocation loop
CrusherBindToken ==
  /\ pc = "allocating"
  /\ allocationContinues
  /\ binding' = allocateIteration(binding, availableTokens, options)
  /\ matchesLookup' = binding'.lookup
  /\ UNCHANGED <<pc, packer, options, contents, result, tokenList, availableTokens, heuristic, search>>
  /\ UNCHANGED workerVars
  /\ UNCHANGED instanceVars

\* the rest of optimizeAndPackToRegexp; an exception replaces both stage results
CrusherFinish ==
  /\ pc = "allocating"
  /\ ~allocationContinues
  /\ result' = runPackerResults(result, finishCrusher(tokenList, availableTokens,
                                                      binding.tokenCount, binding.output,
                                                      contents))
  /\ pc' = "done"
  /\ UNCHANGED <<packer, options, contents, matchesLookup, tokenList, availableTokens, binding,
                 heuristic, search>>
  /\ UNCHANGED workerVars
  /\ UNCHANGED instanceVars

\* the loop condition of line 135
bindingContinues ==
  binding.i < Len(binding.lookup) /\ binding.tokensRemaining /\ binding.gainsRemaining

\* packToRegexpCharClass, one iteration of the loop of lines 135-221
BindToken ==
  /\ pc = "binding"
  /\ bindingContinues
  /\ binding' = [bindIteration(binding, availableTokens) EXCEPT !.i = binding.i + 1]
  /\ matchesLookup' = binding'.lookup
  /\ UNCHANGED <<pc, packer, options, contents, result, tokenList, availableTokens, heuristic, search>>
  /\ UNCHANGED workerVars
  /\ UNCHANGED instanceVars

\* packToRegexpCharClass, lines 223-400, and the push of the second result
FinishPacking ==
  /\ pc = "binding"
  /\ ~bindingContinues
  /\ result' = runPackerResults(result, finishPacking(tokenList, availableTokens,
                                                      binding.tokenCount, binding.output,
                                                      contents))
  /\ pc' = "done"
  /\ UNCHANGED <<packer, options, contents, matchesLookup, tokenList, availableTokens, binding,
                 heuristic, search>>
  /\ UNCHANGED workerVars
  /\ UNCHANGED instanceVars

Next ==
  \/ RegPackStage1
  \/ CrusherStage1
  \/ SlowPackStart
  \/ SlowPackIterate
  \/ SlowPackStage1
  \/ PrepareTokens
  \/ BindToken
  \/ FinishPacking
  \/ CrusherPrepareTokens
  \/ CrusherBindToken
  \/ CrusherFinish

Spec == Init /\ [][Next]_vars

(***************************************************************************)
(* One packer instance called several times                                *)
(***************************************************************************)
MaxCalls == 3

ReuseInputs == SearchExtras

\* the heuristic argument of a call: absent, or LONGEST
ReuseArguments == {"none", "longest"}

\* for SlowPack: no search option given, and at most one replacement
ReuseOptionSets(p) ==
  IF p = "SlowPack"
  THEN {packerOptions(1, 1, 1), [packerOptions(1, 1, 1) EXCEPT !.maxReplacements = 1]}
  ELSE CrushOptionSets

\* Crusher.runPacker, lines 49-51: a heuristic that is given replaces this.heuristic
heuristicAfter(current, given) == IF given # "none" THEN given ELSE current

\* a new RegPack, SlowPack or Crusher (constructed with the default BALANCED) and
\* the first call of runPacker on it
InitReuse ==
  /\ program = "packer"
  /\ replacer = noReplacer
  /\ inbox = <<>>
  /\ received = <<>>
  /\ posted = <<>>
  /\ delivered = 0
  /\ digit = noDigit
  /\ artefact = noArtefact
  /\ pc = "start"
  /\ packer \in {"RegPack", "SlowPack", "Crusher"}
  /\ argument \in IF packer = "Crusher" THEN ReuseArguments ELSE {"none"}
  /\ heuristic = heuristicAfter("balanced", argument)
  /\ solver = freshSolver
  /\ calls = <<>>
  /\ options \in ReuseOptionSets(packer)
  /\ contents \in ReuseInputs
  /\ matchesLookup = <<>>
  /\ result = <<>>
  /\ tokenList = <<>>
  /\ availableTokens = <<>>
  /\ binding = noBinding
  /\ search = noSearch

\* runPacker has returned and is called again on the same instance: a new
\* PackerData, the fields of the instance as the call before left them
CallAgain ==
  /\ program = "packer"
  /\ pc = "done"
  /\ Len(calls) < MaxCalls - 1
  /\ calls' = Append(calls, [contents |-> contents, options |-> options,
                             argument |-> argument, result |-> result])
  /\ \E input \in ReuseInputs, opt \in ReuseOptionSets(packer),
        given \in IF packer = "Crusher" THEN ReuseArguments ELSE {"none"} :
       /\ contents' = input
       /\ options' = opt
       /\ argument' = given
       /\ heuristic' = heuristicAfter(heuristic, given)
  /\ pc' = "start"
  /\ matchesLookup' = <<>>
  /\ result' = <<>>
  /\ tokenList' = <<>>
  /\ availableTokens' = <<>>
  /\ binding' = noBinding
  /\ search' = noSearch
  /\ UNCHANGED <<packer, solver, replacer>>
  /\ UNCHANGED workerVars

ReuseNext ==
  \/ Next
  \/ CallAgain

ReuseSpec == InitReuse /\ [][ReuseNext]_vars

\* the results of the two stages of a run
stage1Result == result[1]

stage2Result == result[Len(result)]

(***************************************************************************)
(* The Replacer and the two workers                                        *)
(***************************************************************************)
\* the longest sequence of messages sent to a worker
MaxInbox == 2

\* "ababababcdcdcdcd": the digit search binds two replacements
TwoPairs == <<97, 98, 97, 98, 97, 98, 97, 98, 99, 100, 99, 100, 99, 100, 99, 100>>

\* "||||||||", "a|ba|ba|b", "a\ba\ba\b", "abcabcabc", "xabcdxabxxabcd", "ab1ab1ab1"
\* and "ababababcdcdcdcd"
DigitInputs ==
  {<<124, 124, 124, 124, 124, 124, 124, 124>>,
   <<97, 124, 98, 97, 124, 98, 97, 124, 98>>,
   <<97, 92, 98, 97, 92, 98, 97, 92, 98>>,
   Core,
   <<120, 97, 98, 99, 100, 120, 97, 98, 120, 120, 97, 98, 99, 100>>,
   <<97, 98, 49, 97, 98, 49, 97, 98, 49>>,
   TwoPairs}

\* the options of the Replacer: the synchronous search and the worker, two widths
ReplacerOptionSets ==
  {[packerOptions(1, 1, 1) EXCEPT !.useBranchSearch = branch, !.beamWidth = width,
                                  !.maxInt = maxInt] :
     branch \in BOOLEAN, width \in {0, 1}, maxInt \in {0, 1, 11}}

\* a message to the branch-search worker: { type, input, options }; an absent
\* input or an absent options object is undefined in the source
defaultMaxStates == 500000

digitInit(input, timeLimit, beamWidth) ==
  [type |-> "init", hasInput |-> TRUE, input |-> input, hasOptions |-> TRUE,
   options |-> [timeLimit |-> timeLimit, beamWidth |-> beamWidth,
                maxStates |-> defaultMaxStates]]

\* the init that compressWithWorker posts: maxStates || 500000, timeLimit || 600000,
\* beamWidth || 5
replacerInit(input, opt) == digitInit(input, 600000, digitBeamWidth(opt))

\* { type: "INIT" } as lib/init.ts would send it, an init without input and an
\* init without options
DigitMessages ==
  {digitInit(Core, 0, 0),
   digitInit(<<120, 97, 98, 99, 100, 120, 97, 98, 120, 120, 97, 98, 99, 100>>, 600000, 2),
   digitInit(<<120>>, 0, 1),
   [digitInit(TwoPairs, 0, 2) EXCEPT !.options.maxStates = 1],
   [digitInit(<<>>, 0, 0) EXCEPT !.type = "INIT"],
   [digitInit(<<>>, 0, 0) EXCEPT !.hasInput = FALSE],
   [digitInit(Core, 0, 0) EXCEPT !.hasOptions = FALSE]}

RECURSIVE Inboxes(_, _)
Inboxes(messages, n) ==
  IF n = 0 THEN {<<>>}
  ELSE LET shorter == Inboxes(messages, n - 1)
       IN shorter \cup {<<m>> \o s : m \in messages, s \in shorter}

\* a message to the SlowPack worker
slowPackInit(input, opt) ==
  [type |-> "init", hasInput |-> TRUE, input |-> input, hasOptions |-> TRUE, options |-> opt]

\* "bbcbabbcbabbcccababbcbbcccacca": with one pattern tried per state the head of
\* the beam keeps its place and the loop goes on
Lingering ==
  <<98, 98, 99, 98, 97, 98, 98, 99, 98, 97, 98, 98, 99, 99, 99, 97, 98, 97, 98, 98, 99, 98, 98,
    99, 99, 99, 97, 99, 99, 97>>

LingeringOptions ==
  [packerOptions(1, 1, 1) EXCEPT !.beamWidth = 1, !.maxReplacements = 2, !.lookAheadDepth = 2,
                                 !.branchFactor = 1]

SlowPackMessages ==
  {slowPackInit(<<97, 98, 99, 100, 97, 98, 99, 100, 97, 98, 99, 100>>, packerOptions(1, 1, 1)),
   slowPackInit(<<120, 97, 98, 99, 100, 120, 97, 98, 120, 120, 97, 98, 99, 100>>,
                [packerOptions(1, 1, 1) EXCEPT !.beamWidth = 2, !.maxReplacements = 2,
                                               !.lookAheadDepth = 1, !.branchFactor = 3]),
   [slowPackInit(<<>>, packerOptions(1, 1, 1)) EXCEPT !.type = "INIT"],
   [slowPackInit(<<>>, packerOptions(1, 1, 1)) EXCEPT !.hasInput = FALSE]}

SlowPackInboxes ==
  Inboxes(SlowPackMessages, MaxInbox) \cup {<<slowPackInit(Lingering, LingeringOptions)>>}

InitWorker ==
  /\ program \in {"Replacer", "branchSearchWorker", "slowPackWorker"}
  /\ pc = IF program = "Replacer" THEN "start" ELSE "idle"
  /\ packer = IF program = "slowPackWorker" THEN "SlowPack" ELSE "Replacer"
  /\ heuristic = "balanced"
  /\ argument = "none"
  /\ solver = freshSolver
  /\ calls = <<>>
  /\ replacer = noReplacer
  /\ options \in IF program = "Replacer" THEN ReplacerOptionSets ELSE {packerOptions(1, 1, 1)}
  /\ contents \in IF program = "Replacer" THEN DigitInputs ELSE {<<>>}
  /\ inbox \in CASE program = "branchSearchWorker" -> Inboxes(DigitMessages, MaxInbox)
                 [] program = "slowPackWorker" -> SlowPackInboxes
                 [] OTHER -> {<<>>}
  /\ received = <<>>
  /\ posted = <<>>
  /\ delivered = 0
  /\ digit = noDigit
  /\ artefact = noArtefact
  /\ matchesLookup = <<>>
  /\ result = <<>>
  /\ tokenList = <<>>
  /\ availableTokens = <<>>
  /\ binding = noBinding
  /\ search = noSearch

\* compressWithWorker after the waitingForTrigger test: this.terminate(), then
\* new Worker, the two handlers and the init posted to the worker; if new Worker
\* throws, the catch calls onComplete with "Error creating Web Worker"
compressWithWorker(created) ==
  /\ \E before \in {terminate(replacer)} :
       replacer' = IF created
                   THEN [worker |-> Len(before.runs) + 1, runs |-> Append(before.runs, newRun)]
                   ELSE [worker |-> 0,
                         runs |-> Append(before.runs, [newRun EXCEPT !.completions = 1])]
  /\ inbox' = IF created THEN <<replacerInit(contents, options)>> ELSE <<>>
  /\ artefact' = IF created THEN [noArtefact EXCEPT !.status = "running"]
                 ELSE [noArtefact EXCEPT !.status = "error",
                                         !.details = "Error creating Web Worker"]
  /\ pc' = IF created THEN "idle" ELSE "done"
  /\ received' = <<>>
  /\ posted' = <<>>
  /\ delivered' = 0
  /\ digit' = noDigit

\* Replacer.runPacker up to the loop of compressWithDigitReplacements, or the whole of
\* compressWithWorker; an input with a digit gives the error result
ReplacerStart ==
  /\ program = "Replacer"
  /\ pc = "start"
  /\ IF hasDigit(contents)
     THEN /\ artefact' = errorArtefact(digitError)
          /\ pc' = "done"
          /\ UNCHANGED <<digit, inbox, received, posted, delivered, replacer>>
     ELSE IF options.useBranchSearch
     THEN \E created \in BOOLEAN : compressWithWorker(created)
     ELSE /\ \E root \in {rootState(contents, findAllPatterns(contents))} :
               digit' = [beam |-> <<root>>, bestSolution |-> root, depth |-> 0,
                         searching |-> TRUE]
          /\ pc' = "digits"
          /\ UNCHANGED <<artefact, inbox, received, posted, delivered, replacer>>
  /\ UNCHANGED <<packer, options, contents, matchesLookup, result, tokenList, availableTokens,
                 binding, heuristic, search, program>>
  /\ UNCHANGED <<solver, argument, calls>>

\* a further call of runPacker on the same Replacer, with the same input and options,
\* at any moment after the first call has returned
ReplacerRunAgain ==
  /\ program = "Replacer"
  /\ options.useBranchSearch
  /\ replacer.runs # <<>>
  /\ Len(replacer.runs) < MaxRuns
  /\ \E created \in BOOLEAN : compressWithWorker(created)
  /\ UNCHANGED <<packer, options, contents, matchesLookup, result, tokenList, availableTokens,
                 binding, heuristic, search, program>>
  /\ UNCHANGED <<solver, argument, calls>>

\* Replacer.terminate called by the owner of the Replacer while it holds a worker: the
\* worker stops, and the messages it has posted are no longer delivered
ReplacerTerminate ==
  /\ program = "Replacer"
  /\ replacer.worker # 0
  /\ replacer' = terminate(replacer)
  /\ pc' = "terminated"
  /\ UNCHANGED <<packer, options, contents, matchesLookup, result, tokenList, availableTokens,
                 binding, heuristic, search>>
  /\ UNCHANGED workerVars
  /\ UNCHANGED <<solver, argument, calls>>

\* the worker fails outside the try of its handler, before it has handled the init
\* (its script does not load): the page queues an error event for the Worker object
WorkerError ==
  /\ program = "Replacer"
  /\ replacer.worker # 0
  /\ pc = "idle"
  /\ inbox # <<>>
  /\ replacer' = [replacer EXCEPT !.runs[replacer.worker].error = "queued"]
  /\ inbox' = <<>>
  /\ UNCHANGED packVars
  /\ UNCHANGED <<program, received, posted, delivered, digit, artefact>>
  /\ UNCHANGED <<solver, argument, calls>>

\* this.worker.onerror of compressWithWorker, for the queued error event of run k.
\* The event is a task of the page, which Worker.terminate() does not cancel: it is
\* dispatched to the handler of its own run whether or not the worker still runs
ReplacerOnError ==
  /\ program = "Replacer"
  /\ \E k \in DOMAIN replacer.runs :
       /\ replacer.runs[k].error = "queued"
       /\ replacer' = [complete(replacer, k) EXCEPT !.runs[k].error = "fired"]
       /\ IF k = Len(replacer.runs)
          THEN /\ artefact' = [noArtefact EXCEPT !.status = "error",
                                                 !.details = "Error in Web Worker"]
               /\ pc' = "done"
          ELSE /\ pc' = IF replacer.worker # 0 THEN "terminated" ELSE pc
               /\ UNCHANGED artefact
  /\ UNCHANGED <<packer, options, contents, matchesLookup, result, tokenList, availableTokens,
                 binding, heuristic, search, program, inbox, received, posted, delivered, digit>>
  /\ UNCHANGED <<solver, argument, calls>>

\* compressWithDigitReplacements, one pass of the loop over depth
ReplacerIterate ==
  /\ program = "Replacer"
  /\ ~options.useBranchSearch
  /\ pc = "digits"
  /\ digit.searching
  /\ digit.depth < replacerMaxReplacements(options)
  /\ digit' = replacerIteration(digit, options)
  /\ UNCHANGED <<packVars, program, inbox, received, posted, delivered, artefact>>
  /\ UNCHANGED instanceVars

\* compressWithDigitReplacements after the loop: the packed output
ReplacerFinish ==
  /\ program = "Replacer"
  /\ ~options.useBranchSearch
  /\ pc = "digits"
  /\ ~(digit.searching /\ digit.depth < replacerMaxReplacements(options))
  /\ artefact' = verifiedArtefact(
                   digitArtefact(digit.bestSolution.text, digit.bestSolution.replacements,
                                 decoderPattern(replacerMaxReplacements(options))),
                   contents, replacerMaxReplacements(options))
  /\ pc' = "done"
  /\ UNCHANGED <<packer, options, contents, matchesLookup, result, tokenList, availableTokens,
                 binding, heuristic, search, program, inbox, received, posted, delivered, digit>>
  /\ UNCHANGED instanceVars

\* this.worker.onmessage of compressWithWorker, for the next message of the worker
\* that the Replacer holds
ReplacerOnMessage ==
  /\ program = "Replacer"
  /\ replacer.worker # 0
  /\ artefact.status = "running"
  /\ delivered < Len(posted)
  /\ delivered' = delivered + 1
  /\ LET message == posted[delivered + 1]
     IN CASE message.type = "result" ->
               /\ artefact' = verifiedArtefact(
                                workerArtefact(message.text, message.replacements),
                                contents, replacerMaxReplacements(options))
               /\ replacer' = complete(replacer, replacer.worker)
               /\ inbox' = <<>>
               /\ pc' = "done"
          [] message.type = "error" ->
               /\ artefact' = [noArtefact EXCEPT !.status = "error",
                                                 !.details = "Error in Web Worker"]
               /\ replacer' = complete(replacer, replacer.worker)
               /\ inbox' = <<>>
               /\ pc' = "done"
          [] OTHER -> UNCHANGED <<artefact, inbox, pc, replacer>>
  /\ UNCHANGED <<packer, options, contents, matchesLookup, result, tokenList, availableTokens,
                 binding, heuristic, search, program, received, posted, digit>>
  /\ UNCHANGED <<solver, argument, calls>>

\* the handler of a worker that takes every message for an init
isAnyMessage(message) == TRUE

\* the progress of a depth counted by the depths that are left
depthProgressRemaining(depth) == 10 + (8 * (MAX_REPLACEMENTS - depth) * 10) \div MAX_REPLACEMENTS

\* if (event.data.type === "init"), in both workers
isInit(message) == message.type = "init"

\* 0.1 + 0.8 * (depth / MAX_DEPTH), in hundredths
depthProgress(depth) == 10 + (8 * depth * 10) \div MAX_REPLACEMENTS

\* the worker that runs the digit search
isDigitWorker == program = "branchSearchWorker" \/ (program = "Replacer" /\ options.useBranchSearch)

\* self.onmessage of branch-search.worker.ts up to the loop over depth: only an init
\* is handled; input.length or options.beamWidth of undefined throws, and the catch
\* posts the error
DigitWorkerReceive ==
  /\ isDigitWorker
  /\ pc = "idle"
  /\ inbox # <<>>
  /\ inbox' = Tail(inbox)
  /\ received' = Append(received, inbox[1])
  /\ LET message == inbox[1]
     IN IF ~isInit(message)
        THEN UNCHANGED <<posted, digit, pc>>
        ELSE IF ~message.hasInput
        THEN /\ posted' = Append(posted, errorMessage)
             /\ UNCHANGED <<digit, pc>>
        ELSE IF ~message.hasOptions
        THEN /\ posted' = posted \o <<progressMessage(1, 100, "initialization"), errorMessage>>
             /\ UNCHANGED <<digit, pc>>
        ELSE \E root \in {rootState(message.input,
                                     workerFindAllPotentialPatterns(message.input))} :
                /\ posted' = posted \o <<progressMessage(1, 100, "initialization"),
                                         progressMessage(2, 100, "initialization"),
                                         progressMessage(5, 100, "analysis")>>
                /\ digit' = [beam |-> <<root>>, globalBestState |-> <<>>, bestState |-> <<>>,
                             depth |-> 0, searching |-> TRUE, root |-> root,
                             timeLimit |-> message.options.timeLimit,
                             beamWidth |-> message.options.beamWidth,
                             maxStates |-> message.options.maxStates,
                             nodesExplored |-> 0, highestGain |-> 0]
                /\ pc' = "digits"
  /\ UNCHANGED <<packer, options, contents, matchesLookup, result, tokenList, availableTokens,
                 binding, heuristic, search, program, delivered, artefact>>
  /\ UNCHANGED instanceVars

\* findBestReplacementsWithBeamSearch, one pass of the loop over depth: the clock may
\* have passed a time limit that is set; otherwise the progress report and the pass
DigitWorkerIterate ==
  /\ isDigitWorker
  /\ pc = "digits"
  /\ digit.searching
  /\ digit.depth < MAX_REPLACEMENTS
  /\ \E timeLimitExceeded \in (IF digit.timeLimit # 0 THEN BOOLEAN ELSE {FALSE}) :
       IF timeLimitExceeded
       THEN /\ posted' = Append(posted, progressMessage(90, 100, "timeout"))
            /\ digit' = [digit EXCEPT !.searching = FALSE]
       ELSE /\ digit' = workerIteration(digit, digit)
            /\ posted' = posted
                           \o <<progressMessage(depthProgress(digit.depth), 100, "searching")>>
                           \o IF digit'.searching THEN <<>>
                              ELSE <<progressMessage(90, 100, "complete")>>
  /\ UNCHANGED <<packVars, program, inbox, received, delivered, artefact>>
  /\ UNCHANGED instanceVars

\* findBestReplacementsWithBeamSearch after the loop: the last progress report and
\* the result
DigitWorkerFinish ==
  /\ isDigitWorker
  /\ pc = "digits"
  /\ ~(digit.searching /\ digit.depth < MAX_REPLACEMENTS)
  /\ \E final \in {finalBestState(digit)} :
       posted' = posted \o <<progressMessage(98, 100, "finalizing"),
                             resultMessage(final.text, final.replacements, final.totalGain)>>
  /\ pc' = "idle"
  /\ digit' = noDigit
  /\ UNCHANGED <<packer, options, contents, matchesLookup, result, tokenList, availableTokens,
                 binding, heuristic, search, program, inbox, received, delivered, artefact>>
  /\ UNCHANGED instanceVars

\* self.onmessage of the SlowPack worker up to runPacker: only an init is handled;
\* input.length of undefined throws, and the catch posts the error
SlowPackWorkerReceive ==
  /\ program = "slowPackWorker"
  /\ pc = "idle"
  /\ inbox # <<>>
  /\ inbox' = Tail(inbox)
  /\ received' = Append(received, inbox[1])
  /\ LET message == inbox[1]
     IN IF ~isInit(message)
        THEN UNCHANGED <<posted, contents, options, pc>>
        ELSE IF ~message.hasInput
        THEN /\ posted' = Append(posted, errorMessage)
             /\ UNCHANGED <<contents, options, pc>>
        ELSE /\ posted' = Append(posted, progressMessage(1, 100, "initialization"))
             /\ contents' = message.input
             /\ options' = [message.options EXCEPT !.onProgress = TRUE]
             /\ pc' = "start"
  /\ matchesLookup' = <<>>
  /\ result' = <<>>
  /\ tokenList' = <<>>
  /\ availableTokens' = <<>>
  /\ binding' = noBinding
  /\ search' = noSearch
  /\ UNCHANGED <<packer, heuristic, program, delivered, digit, artefact>>
  /\ solver' = IF isInit(inbox[1]) /\ inbox[1].hasInput THEN freshSolver ELSE solver
  /\ UNCHANGED <<argument, calls, replacer>>

\* the end of the handler: runPacker has returned and the result is posted
SlowPackWorkerReply ==
  /\ program = "slowPackWorker"
  /\ pc = "done"
  /\ posted' = Append(posted, resultMessage(stage2Result.checkedString, <<>>, 0))
  /\ pc' = "idle"
  /\ UNCHANGED <<packer, options, contents, matchesLookup, result, tokenList, availableTokens,
                 binding, heuristic, search, program, inbox, received, delivered, digit, artefact>>
  /\ UNCHANGED instanceVars

WorkerNext ==
  \/ ReplacerStart
  \/ ReplacerIterate
  \/ ReplacerFinish
  \/ ReplacerOnMessage
  \/ DigitWorkerReceive
  \/ DigitWorkerIterate
  \/ DigitWorkerFinish
  \/ SlowPackWorkerReceive
  \/ SlowPackWorkerReply
  \/ SlowPackStart
  \/ SlowPackIterate
  \/ SlowPackStage1
  \/ PrepareTokens
  \/ BindToken
  \/ FinishPacking

WorkerSpec == InitWorker /\ [][WorkerNext]_vars

(***************************************************************************)
(* A Replacer whose owner may call terminate() and runPacker again at any  *)
(* moment, and whose worker may fail                                       *)
(***************************************************************************)
InitCallback == InitWorker /\ program = "Replacer"

CallbackNext ==
  \/ ReplacerStart
  \/ ReplacerIterate
  \/ ReplacerFinish
  \/ ReplacerOnMessage
  \/ ReplacerRunAgain
  \/ ReplacerTerminate
  \/ WorkerError
  \/ ReplacerOnError
  \/ DigitWorkerReceive
  \/ DigitWorkerIterate
  \/ DigitWorkerFinish

CallbackSpec == InitCallback /\ [][CallbackNext]_vars

(***************************************************************************)
(* Properties                                                              *)
(***************************************************************************)

\* C1: whenever RegExpPacker.packToRegexpCharClass (RegPack or SlowPack) returns a
\* result of length > 0, unescaping its packed literal and expanding, one after the
\* other, the first character matched by the emitted class (split, shift, join)
\* until none is left yields the input
C1_Stage2RoundTrip ==
  (pc = "done" /\ packer \in {"RegPack", "SlowPack"} /\ stage2Result.length > 0)
    => decodeStage2(unescapePacked(stage2Result.checkedString), stage2Result.tokenString)
         = contents

\* C3: the stage-1 decoder, run over the token string emitted by
\* RegPack.findRedundancies or Crusher.compressWithPatterns, reproduces the input
C3_Stage1RoundTrip ==
  (pc = "stage1" /\ packer \in {"RegPack", "Crusher"})
    => decodeStage1(stage1Result.s, stage1Result.tokens) = contents

\* C4: whenever the Crusher returns a second-stage result of length > 0, its
\* decode simulation reproduces the input (Final check: passed)
C4_CrusherCheckPasses ==
  (pc = "done" /\ packer = "Crusher" /\ stage2Result.length > 0)
    => stage2Result.details = "passed"

\* C8: the character class emitted by the token allocator never begins with ^
C8_ClassNeverStartsWithCaret ==
  pc = "done" => (stage2Result.tokenString = <<>> \/ stage2Result.tokenString[1] # CARET)

\* the codes of a string are pairwise different
distinctCodes(s) == Cardinality(Chars(s)) = Len(s)

\* the tokens carried by the entries of a replacement list, in list order
RECURSIVE lookupTokens(_)
lookupTokens(lookup) ==
  IF lookup = <<>> THEN <<>> ELSE lookup[1].token \o lookupTokens(Tail(lookup))

\* the tokens bound by the allocator so far, in binding order
allocatedTokens == [k \in 1..Len(binding.details) |-> binding.details[k].token]

\* C5: the tokens bound to two different replacements are different bytes and no
\* bound token occurs in the input: this holds for the replacement list and the
\* token string of the first stage, for the tokens the allocator binds, and for
\* the packed literal it returns, whose bytes foreign to the input are exactly
\* one per bound replacement
C5_TokenDisjointness ==
  /\ distinctCodes(lookupTokens(matchesLookup))
  /\ Chars(lookupTokens(matchesLookup)) \cap Chars(contents) = {}
  /\ (pc = "stage1"
        => /\ distinctCodes(stage1Result.tokens)
           /\ Chars(stage1Result.tokens) \cap Chars(contents) = {})
  /\ distinctCodes(allocatedTokens)
  /\ Chars(allocatedTokens) \cap Chars(contents) = {}
  /\ (pc = "done" /\ stage2Result.length > 0
        => Cardinality(Chars(unescapePacked(stage2Result.checkedString)) \ Chars(contents))
             = Len(binding.details))

\* two replacements were bound in each stage and a result was returned
C5_TwoTokensBound ==
  /\ pc = "done"
  /\ stage2Result.length > 0
  /\ Len(lookupTokens(matchesLookup)) >= 2
  /\ Len(binding.details) >= 2

\* the replacements of the first stage that carry a token, in order of application
boundMatches == SelectSeq(matchesLookup, LAMBDA m : m.token # <<>>)

\* the text of the first stage as it was before the k-th bound replacement
RECURSIVE textBefore(_, _, _)
textBefore(bound, s, k) ==
  IF Len(bound) < k THEN s
  ELSE textBefore(SubSeq(bound, 1, Len(bound) - 1), joinPop(s, bound[Len(bound)].token), k)

\* the first-stage gain of a bound replacement, counted on the text of its moment
searchGain(k) ==
  LET m == boundMatches[k]
      copies == Len(split(textBefore(boundMatches, stage1Result.s, k), m.string)) - 1
  IN copies * m.len - copies - m.len - 2

\* the allocator's gain of its k-th binding, counted on the text of its moment
allocatorGain(k) ==
  LET d == binding.details[k]
      len == binding.lookup[d.matchIndex].len
      tokenCost == getCharacterLength(d.token)
      count == countOverlapping(d.before, d.str)
  IN count * (len - tokenCost) - len - 2 * tokenCost

\* C6 (amended): a replacement bound in the search stage had a gain > 0 by
\* copies * len - copies - len - 2, and a replacement bound by the token allocator
\* had a gain >= 0 by copies * (len - tokenCost) - len - 2 * tokenCost, each
\* evaluated on the text as it was when the replacement was bound; the recorded
\* gain is that value
C6_GainAtBinding ==
  /\ (pc = "stage1"
        => \A k \in 1..Len(boundMatches) :
              boundMatches[k].gain = searchGain(k) /\ searchGain(k) > 0)
  /\ \A k \in 1..Len(binding.details) :
        binding.details[k].gain = allocatorGain(k) /\ allocatorGain(k) >= 0

\* C6 as stated: every bound replacement, in both stages, had a gain > 0
C6_GainStrictlyPositive ==
  /\ (pc = "stage1" => \A k \in 1..Len(boundMatches) : searchGain(k) > 0)
  /\ \A k \in 1..Len(binding.details) : allocatorGain(k) > 0

\* both stages have bound a replacement and the allocator bound one of gain 0
C6_ZeroGainBound ==
  /\ pc = "done"
  /\ boundMatches # <<>>
  /\ \E k \in 1..Len(binding.details) : allocatorGain(k) = 0

\* the positions in binding.details at which entry m of the list was bound
boundAt(m) == {k \in 1..Len(binding.details) : binding.details[k].matchIndex = m}

\* the dependency pass recorded the string of entry inner inside that of entry outer
recordedInside(inner, outer) ==
  /\ inner # outer
  /\ binding.lookup[inner].token # <<>>
  /\ binding.lookup[outer].token # <<>>
  /\ binding.lookup[inner].token[1] \in Chars(binding.lookup[outer].depends)

\* the original string of entry outer contains that of entry inner and is longer
strictlyContains(outer, inner) ==
  /\ indexOf(binding.lookup[outer].originalString, binding.lookup[inner].originalString, 0) > -1
  /\ Len(binding.lookup[outer].originalString) > Len(binding.lookup[inner].originalString)

\* C7 (amended): the allocator binds the containing replacement first: whenever the
\* dependency pass has recorded the original string of a token-carrying
\* replacement j inside that of a token-carrying replacement i, then at the moment
\* j is bound, i has already been bound or discarded for a negative gain
C7_ContainerBoundFirst ==
  \A j \in 1..Len(binding.lookup) : \A i \in 1..Len(binding.lookup) :
    (boundAt(j) # {} /\ recordedInside(j, i))
      => /\ binding.lookup[i].cleared
         /\ \A kj \in boundAt(j) : \A ki \in boundAt(i) : ki < kj

\* C7 as stated: whenever the original string of a bound replacement i contains
\* that of a bound replacement j, j was bound before i
C7_ContainedBoundFirst ==
  \A j \in 1..Len(binding.lookup) : \A i \in 1..Len(binding.lookup) :
    strictlyContains(i, j)
      => \A kj \in boundAt(j) : \A ki \in boundAt(i) : kj < ki

\* two token-carrying replacements, one recorded inside the other, are both bound
C7_NestedPairBound ==
  \E j \in 1..Len(binding.lookup) : \E i \in 1..Len(binding.lookup) :
    /\ recordedInside(j, i)
    /\ strictlyContains(i, j)
    /\ boundAt(j) # {}
    /\ boundAt(i) # {}

\* C2: whenever the Replacer has returned a packed output, on the synchronous path
\* and on the worker path, evaluating that output, each digit of the packed literal
\* replaced by the piece of that index of the pattern list split on |, gives the
\* input back
C2_DigitRoundTrip ==
  (program = "Replacer" /\ artefact.status = "packed")
    => evaluateArtefact(artefact) = [ok |-> TRUE, value |-> contents]

\* the worker of this behaviour: one of the two workers alone, or the branch-search
\* worker that the Replacer has started
isWorker == program # "Replacer" \/ options.useBranchSearch

\* the worker is inside its message handler
workerBusy == IF program = "slowPackWorker" THEN pc # "idle" ELSE pc = "digits"

isTerminal(message) == message.type \in {"result", "error"}

initsReceived == Len(SelectSeq(received, LAMBDA m : m.type = "init"))

terminalsPosted == Len(SelectSeq(posted, isTerminal))

C10_MonotoneProgress ==
  isWorker
    => /\ \A k \in 1..Len(posted) :
             posted[k].type = "progress"
               => 0 <= posted[k].num /\ posted[k].num <= posted[k].den /\ posted[k].den > 0
       /\ \A k \in 1..(Len(posted) - 1) :
             (posted[k].type = "progress" /\ posted[k + 1].type = "progress")
               => posted[k].num * posted[k + 1].den <= posted[k + 1].num * posted[k].den

\* the SlowPack worker has posted 0.01 and then the value of the solver at two
\* iterations of its loop
C10_SolverReportedTwice ==
  /\ program = "slowPackWorker"
  /\ Len(posted) >= 3
  /\ posted[1] = progressMessage(1, 100, "initialization")
  /\ posted[2].type = "progress"
  /\ posted[3].type = "progress"
  /\ posted[2].num * 100 > posted[2].den
  /\ search.iteration >= 20

\* C11: once the Replacer has left its start on an input that holds one of the
\* characters 0 to 9, with any options, it has returned the error result alone,
\* length 0, empty output and details that name the digit restriction; no init was
\* posted to a worker, no message came back and no replacement was made
C11_DigitPrecondition ==
  (/\ program = "Replacer"
   /\ pc # "start"
   /\ \E k \in 1..Len(contents) : contents[k] \in 48..57)
    => /\ pc = "done"
       /\ artefact.status = "error"
       /\ artefact.length = 0
       /\ artefact.output = <<>>
       /\ artefact.details
            = "Error: Input contains digits (0-9) which are used as tokens by Replacer"
       /\ artefact.replacements = <<>>
       /\ inbox = <<>>
       /\ received = <<>>
       /\ posted = <<>>
       /\ digit = noDigit

\* the Replacer was asked for the worker path on an input that holds the digit 1 and
\* has returned
C11_DigitInputRejected ==
  /\ program = "Replacer"
  /\ options.useBranchSearch
  /\ pc = "done"
  /\ \E k \in 1..Len(contents) : contents[k] = 49

\* every code of 1..126 other than the string delimiter occurs in the input
noFreeCode ==
  \A c \in (1..LASTCODE) \ {packedStringDelimiter} : \E k \in 1..Len(contents) : contents[k] = c

\* the report of a stage result holds "No tokens available"
reportsNoTokens(r) ==
  \/ r.details = "No tokens available"
  \/ r.details = "Error" /\ "message" \in DOMAIN r /\ r.message = "No tokens available"

\* C12: when a packer, RegPack, SlowPack or the Crusher, has returned for an input
\* in which every code of 1..126 other than the string delimiter occurs, its
\* second-stage result has length -1 and a report that holds "No tokens available"
C12_NoFreeTokens ==
  (program = "packer" /\ pc = "done" /\ noFreeCode)
    => stage2Result.length = -1 /\ reportsNoTokens(stage2Result)

\* the same for the allocator shared by RegPack and SlowPack alone
C12_SharedAllocatorSentinel ==
  (program = "packer" /\ pc = "done" /\ noFreeCode /\ packer # "Crusher")
    => stage2Result.length = -1 /\ reportsNoTokens(stage2Result)

\* the Crusher has returned for such an input: both results are the error result
C12_CrusherThrows ==
  /\ program = "packer" /\ pc = "done" /\ noFreeCode /\ packer = "Crusher"
  /\ stage2Result.length = 0
  /\ reportsNoTokens(stage2Result)

\* r is the result built by a catch block
thrown(r) == "details" \in DOMAIN r /\ r.details = "Error"

C14_NoPersistedState ==
  (program = "packer" /\ pc = "done")
    => \A k \in 1..Len(calls) :
         (/\ calls[k].contents = contents
          /\ calls[k].options = options
          /\ calls[k].argument = argument)
           => calls[k].result = result

\* the same for a RegPack instance, which keeps no field between calls
C14_RegPackStateless ==
  (program = "packer" /\ pc = "done" /\ packer = "RegPack")
    => \A k \in 1..Len(calls) :
         (calls[k].contents = contents /\ calls[k].options = options)
           => calls[k].result = result

\* C15: when the beam search has ended, the score (the cumulative gain) of the
\* solution it returns is the highest score of any state that was in the beam
\* after an iteration, at the head of the beam or behind it
C15_BestSolutionRetained ==
  (packer = "SlowPack" /\ pc \in {"stage1", "binding", "done"})
    => search.bestSolution.score >= search.highest

\* C16: a pass of the digit worker's loop creates a state only while the number
\* of states explored so far is below the maxStates of the init
C16_StateBudget ==
  [][(/\ "nodesExplored" \in DOMAIN digit
      /\ "nodesExplored" \in DOMAIN digit'
      /\ digit'.nodesExplored > digit.nodesExplored)
       => digit.nodesExplored < digit.maxStates]_vars

\* C17: when the last message of the digit worker is the progress message with the
\* stage "timeout", the loop makes no further pass: the next messages it posts are
\* the progress message of the stage "finalizing" and then a result message, not
\* an error message, whose totalGain is the highest totalGain of any state the
\* search has created
C17_TimeoutIsNotAnError ==
  [][(/\ isWorker
      /\ program # "slowPackWorker"
      /\ posted # <<>>
      /\ posted[Len(posted)].stage = "timeout"
      /\ posted' # posted)
       => /\ Len(posted') = Len(posted) + 2
          /\ SubSeq(posted', 1, Len(posted)) = posted
          /\ posted'[Len(posted) + 1].type = "progress"
          /\ posted'[Len(posted) + 1].stage = "finalizing"
          /\ posted'[Len(posted) + 2].type = "result"
          /\ posted'[Len(posted) + 2].totalGain = digit.highestGain]_vars

\* the worker ran out of time after a pass that created states, and has posted the
\* timeout message, the finalizing message and a result with a gain
C17_TimedOutWithGain ==
  /\ isWorker
  /\ Len(posted) >= 3
  /\ posted[Len(posted) - 2].stage = "timeout"
  /\ posted[Len(posted) - 1].stage = "finalizing"
  /\ posted[Len(posted)].type = "result"
  /\ posted[Len(posted)].totalGain > 0
  /\ posted[Len(posted)].replacements # <<>>

(***************************************************************************)
(* C18                                                                     *)
(***************************************************************************)
\* the one-digit tokens that occur in a packed text; the searches of this model bind
\* fewer than ten replacements, so that every token is one digit
tokensUsed(text) == {<<text[k]>> : k \in {j \in 1..Len(text) : isDigit(text[j])}}

\* C18: with N the configured maxInt clamped to 1..100 (10 when absent), the digit
\* replacer binds at most N replacements, and the tokens of the packed text are
\* exactly the decimal numerals 0..k-1 of the k replacements bound, on the
\* synchronous path and on the worker path
C18_DigitTokenCount ==
  (program = "Replacer" /\ artefact.status = "packed") =>
    /\ Len(artefact.replacements) <= replacerMaxReplacements(options)
    /\ tokensUsed(artefact.text) = {toString(i) : i \in 0..(Len(artefact.replacements) - 1)}

(***************************************************************************)
(* C19                                                                     *)
(***************************************************************************)
\* every printable code, 32..126, occurs in the input
allPrintable == \A c \in 32..LASTCODE : \E k \in 1..Len(contents) : contents[k] = c

\* C19: when RegPack or SlowPack, the packers that share the token allocator
\* packToRegexpCharClass, has returned for an input in which every printable code
\* 32..126 occurs, the allocator has bound no token: its result has length -1 and
\* a report that holds "No tokens available"
C19_PrintableExhausted ==
  (program = "packer" /\ pc = "done" /\ packer # "Crusher" /\ allPrintable)
    => /\ stage2Result.length = -1
       /\ reportsNoTokens(stage2Result)
       /\ binding.tokenCount = 0

(***************************************************************************)
(* C20                                                                     *)
(***************************************************************************)
\* the options a packer runs with when the user changes nothing: those of
\* RegPackPreview and PatternViewer for RegPack and the Crusher, whose constructor
\* defaults to the balanced heuristic, and those of RegPack2Preview for SlowPack
defaultOptions ==
  IF packer = "SlowPack"
  THEN options = [packerOptions(1, 1, 1) EXCEPT !.beamWidth = 5, !.maxReplacements = 100]
  ELSE options = packerOptions(2, 1, 0) /\ heuristic = "balanced"

\* the search stage of the run has returned
searchStageDone == program = "packer" /\ result # <<>>

\* C20: for the input "abcabcabc" with default options, once the search stage of
\* RegPack, of the Crusher or of the beam search has returned, exactly one
\* replacement is recorded: the pattern "abc" with 3 copies and gain 1
C20_OneReplacement ==
  (searchStageDone /\ contents = Core /\ defaultOptions) =>
    /\ Len(matchesLookup) = 1
    /\ matchesLookup[1].originalString = <<97, 98, 99>>
    /\ matchesLookup[1].copies = 3
    /\ matchesLookup[1].gain = 1

\* the beam search has returned for "abcabcabc" with default options and the run
\* has ended with "abc" recorded
C20_BeamSearchBoundAbc ==
  /\ searchStageDone /\ contents = Core /\ defaultOptions
  /\ packer = "SlowPack" /\ pc = "done"
  /\ search.bestSolution.replacements # <<>>
  /\ matchesLookup # <<>>

(***************************************************************************)
(* C21                                                                     *)
(***************************************************************************)
\* no substring of two characters, and so none that is longer, starts at two
\* positions of s
noRepeatedSubstring(s) ==
  \A i, j \in 1..(Len(s) - 1) : i < j => SubSeq(s, i, i + 1) # SubSeq(s, j, j + 1)

\* no replacement is bound and the packed literal is the escaped input
inputUnchanged ==
  /\ matchesLookup = <<>>
  /\ stage1Result.s = contents
  /\ stage1Result.packedString = escapePacked(contents)

\* C21: when RegPack, the Crusher or the beam search has returned for an input
\* without a repeated substring of length 2 or more, no replacement is bound, the
\* packed literal is the input unchanged up to escaping, the token list of the
\* decoder of the search stage and the character class of the final decoder are
\* empty, and the length of the artefact is at least the length of the input
C21_TrivialArtefact ==
  (program = "packer" /\ pc = "done" /\ noRepeatedSubstring(contents)) =>
    /\ inputUnchanged
    /\ stage1Result.tokens = <<>>
    /\ stage2Result.tokenString = <<>>
    /\ stage2Result.length >= Len(contents)

\* the same without the token list of the search stage
C21_NothingBound ==
  (program = "packer" /\ pc = "done" /\ noRepeatedSubstring(contents)) =>
    /\ inputUnchanged
    /\ stage2Result.tokenString = <<>>
    /\ stage2Result.length >= Len(contents)

\* the statement of C21 for the beam search alone
C21_BeamSearchTrivial ==
  (packer = "SlowPack") => C21_TrivialArtefact

(***************************************************************************)
(* C22                                                                     *)
(***************************************************************************)
\* the packed literal of the second stage, as the decoder reads it
packedLiteral == unescapePacked(stage2Result.checkedString)

\* the tokens bound by the allocator as they stand in the packed literal, after the
\* trade of lines 284-325: the codes of the literal that the input does not hold
tokensOfLiteral == Chars(packedLiteral) \ Chars(contents)

\* the codes of the packed literal that the emitted character class matches
matchedByClass == {c \in Chars(packedLiteral) : classMatches(stage2Result.tokenString, c)}

\* C22: whenever packToRegexpCharClass returns a result of length > 0, the
\* characters of the packed literal that the emitted character class matches are
\* exactly the bound tokens: every bound token is in the class, also after the
\* repair and the swap of a range that begins with ^, and the class matches no
\* other character of the literal
C22_ClassMatchesBoundTokens ==
  (program = "packer" /\ pc = "done" /\ packer \in {"RegPack", "SlowPack"}
     /\ stage2Result.length > 0)
    => matchedByClass = tokensOfLiteral

\* one half of C22: the class matches no character of the input
C22_ClassMatchesNoInputCharacter ==
  (program = "packer" /\ pc = "done" /\ packer \in {"RegPack", "SlowPack"}
     /\ stage2Result.length > 0)
    => matchedByClass \subseteq tokensOfLiteral


(***************************************************************************)
(* C23                                                                     *)
(***************************************************************************)
\* C23: whenever the Replacer has returned a packed output, on the synchronous path
\* and on the worker path, verifyUnpacking has reported "passed" if and only if
\* evaluating the output, every numeric token of the packed literal replaced in one
\* pass by the pattern of that index, gives the input back
C23_SelfCheckAgrees ==
  (program = "Replacer" /\ artefact.status = "packed")
    => (artefact.verification = "passed"
          <=> evaluateArtefact(artefact) = [ok |-> TRUE, value |-> contents])

\* one direction of C23: a self-check that fails tells of a decoder that fails
C23_FailedMeansBroken ==
  (program = "Replacer" /\ artefact.status = "packed" /\ artefact.verification = "failed")
    => evaluateArtefact(artefact) # [ok |-> TRUE, value |-> contents]

\* the other direction of C23: a self-check that passes tells of a decoder that works
C23_PassedMeansSound ==
  (program = "Replacer" /\ artefact.status = "packed" /\ artefact.verification = "passed")
    => evaluateArtefact(artefact) = [ok |-> TRUE, value |-> contents]

(***************************************************************************)
(* C24                                                                     *)
(***************************************************************************)
\* the prediction for a state of the beam, made with the given cache
predictionFor(cache, state) ==
  predictMultiLevelGain(cache, state.text, state.availablePatterns,
                        lookAheadDepth(solverOptions(solver, options)), 0, {}).value

\* C24: the result of predictMultiLevelGain does not depend on its cache: for every
\* state of the beam, the prediction made with the cache that the calls of the
\* search have left is the prediction made with an empty cache
C24_CacheTransparent ==
  (program = "packer" /\ packer = "SlowPack" /\ pc = "searching") =>
    \A k \in 1..Len(search.beam) :
      predictionFor(search.cache, search.beam[k]) = predictionFor(<<>>, search.beam[k])

(***************************************************************************)
(* C25                                                                     *)
(***************************************************************************)
\* the number of occurrences of x in text found by a search that goes on behind
\* the end of the occurrence found last
nonOverlapping(text, x) == countHops(text, x, indexOf(text, x, 0), Len(x))

\* the patterns that findAllPotentialPatterns has returned for the input: those of
\* the start state of the beam search
enumerated == search.beam[1].availablePatterns

\* C25: every pattern that the enumeration of the beam search returns has at least
\* two non-overlapping occurrences in the text, and its recorded copies is its
\* number of non-overlapping occurrences
C25_NonOverlappingCount ==
  (program = "packer" /\ packer = "SlowPack" /\ pc = "searching" /\ search.iteration = 0) =>
    \A k \in 1..Len(enumerated) :
      /\ nonOverlapping(contents, enumerated[k].string) >= 2
      /\ enumerated[k].copies = nonOverlapping(contents, enumerated[k].string)

\* the same for the matches that RegPack.findRedundancies has recorded
C25_RegPackCount ==
  (program = "packer" /\ packer = "RegPack" /\ pc = "stage1" /\ Len(matchesLookup) = 1) =>
    /\ nonOverlapping(contents, matchesLookup[1].string) >= 2
    /\ matchesLookup[1].copies = nonOverlapping(contents, matchesLookup[1].string)

(***************************************************************************)
(* C26                                                                     *)
(***************************************************************************)
\* the length of a string once each of its backslashes is written twice
escapedLength(s) == Len(s) + Cardinality({k \in 1..Len(s) : s[k] = BACKSLASH})

\* the number of non-overlapping occurrences of the k-th bound pattern in the
\* working text as it was before its replacement
copiesBefore(k) ==
  nonOverlapping(textBefore(boundMatches, stage1Result.s, k), boundMatches[k].string)

freeCodes == (1..LASTCODE) \ ({packedStringDelimiter} \cup Chars(contents))

\* a range holds free codes only
rangeIsFree(range) == \A code \in range.first..range.last : code \in freeCodes

\* a range that is not empty neither begins nor ends with a line feed or a
\* carriage return
rangeAvoidsTerminators(range) ==
  range.first <= range.last => {range.first, range.last} \cap {10, CR} = {}

\* the ranges as they are at the end of the run: those of the result when the
\* allocator of RegPack and SlowPack has returned one, else those of the state
rangesAtEnd ==
  IF pc = "done" /\ "tokenList" \in DOMAIN stage2Result THEN stage2Result.tokenList
  ELSE tokenList

\* C27: from the discovery of the ranges to the construction of the class, every
\* token range holds only codes of 1..126 that are absent from the input and differ
\* from the delimiter, and no range begins or ends with CR (13) or LF (10)
C27_RangesAvoidLineTerminators ==
  program = "packer" =>
    /\ \A k \in 1..Len(tokenList) :
         rangeIsFree(tokenList[k]) /\ rangeAvoidsTerminators(tokenList[k])
    /\ \A k \in 1..Len(rangesAtEnd) :
         rangeIsFree(rangesAtEnd[k]) /\ rangeAvoidsTerminators(rangesAtEnd[k])

\* the first half of C27 alone: every range holds free codes only
C27_RangesAreFree ==
  program = "packer" =>
    /\ \A k \in 1..Len(tokenList) : rangeIsFree(tokenList[k])
    /\ \A k \in 1..Len(rangesAtEnd) : rangeIsFree(rangesAtEnd[k])

(***************************************************************************)
(* C28                                                                     *)
(***************************************************************************)
\* the option lookAheadDepth is 0: the source reads it with
\* if (options.lookAheadDepth), which takes the number 0 and an absent option alike
lookAheadZero == options.lookAheadDepth = 0

\* C28: when the beam search runs with the option lookAheadDepth = 0, the gain
\* predictor looks 0 levels ahead: the predicted score of every state of the beam
\* is its cumulative gain
C28_ZeroLookAhead ==
  (program = "packer" /\ packer = "SlowPack" /\ pc = "searching" /\ lookAheadZero) =>
    \A k \in 1..Len(search.beam) : search.beam[k].predictedScore = search.beam[k].score

\* with the option lookAheadDepth = 0 the solver looks ahead by the value of its
\* field, 150 on a new instance
C28_FieldKept ==
  (program = "packer" /\ packer = "SlowPack" /\ pc = "searching" /\ lookAheadZero) =>
    lookAheadDepth(solverOptions(solver, options)) = freshSolver.lookAheadDepth

\* C29: on a Replacer that runs its digit search in a worker, under every interleaving
\* of worker messages, worker errors, terminate() calls and further runPacker calls,
\* onComplete is invoked at most once per run and never by a handler that starts
\* after the worker of its run has been terminated
C29_CallbackDiscipline ==
  program = "Replacer" =>
    \A k \in DOMAIN replacer.runs :
      replacer.runs[k].completions <= 1 /\ ~replacer.runs[k].late

\* no run of compressWithWorker has its onComplete invoked twice
C29_AtMostOnce ==
  program = "Replacer" => \A k \in DOMAIN replacer.runs : replacer.runs[k].completions <= 1

\* a run has been completed by the result of its worker, and another by the catch
C29_Completed ==
  /\ program = "Replacer"
  /\ Len(replacer.runs) = MaxRuns
  /\ \E k \in DOMAIN replacer.runs :
       replacer.runs[k].terminated /\ replacer.runs[k].completions = 1
  /\ artefact.status = "packed"

\* while a worker runs, the Replacer holds the worker of its latest run, and a worker
\* it does not hold has been terminated
C29_OneWorker ==
  program = "Replacer" =>
    /\ replacer.worker \in {0, Len(replacer.runs)}
    /\ \A k \in DOMAIN replacer.runs :
         (k # replacer.worker /\ replacer.runs[k].error = "none"
            /\ replacer.runs[k].completions = 0)
           => replacer.runs[k].terminated

(***************************************************************************)
(* C30                                                                     *)
(***************************************************************************)
\* the text of the allocator after its k-th binding
textAfter(k) ==
  IF k < Len(binding.details) THEN binding.details[k + 1].before ELSE binding.output

\* the occurrences of the string of the k-th binding that matchAndReplaceAll
\* substitutes: it looks for the next one behind the end of the one it replaced
replacedBy(k) == nonOverlapping(binding.details[k].before, binding.details[k].str)

\* the text gets the string and the token in front and a token for each occurrence
shrinkage(k) == Len(binding.details[k].before) - Len(textAfter(k))

\* C30: for every replacement bound by the token allocator, the count that entered
\* its gain is the number of occurrences that the rewrite substitutes by the token,
\* and with a one-byte token the text gets shorter by count * (len - 1) - len - 1
C30_CountIsReplaced ==
  (program = "packer" /\ pc \in {"binding", "done"}) =>
    \A k \in 1..Len(binding.details) :
      LET d == binding.details[k]
      IN /\ d.count = replacedBy(k)
         /\ getCharacterLength(d.token) = 1
              => shrinkage(k) = d.count * (Len(d.str) - 1) - Len(d.str) - 1

\* the text gets shorter by the formula taken with the occurrences that were
\* replaced, and the count of the gain is never below them
C30_ShrinksByReplaced ==
  (program = "packer" /\ pc \in {"binding", "done"}) =>
    \A k \in 1..Len(binding.details) :
      LET d == binding.details[k]
      IN /\ d.count >= replacedBy(k)
         /\ getCharacterLength(d.token) = 1
              => shrinkage(k) = replacedBy(k) * (Len(d.str) - 1) - Len(d.str) - 1

====
